---- MODULE Spec2Model ----
(***************************************************************************)
(* Model of the discovery and result-reconciliation engine of the Spock    *)
(* test runner: TestDiscoveryService.parseTestsInFile (the structural      *)
(* source parser) and TestResultParser (console / XML result extraction    *)
(* and their reconciliation).                                              *)
(*                                                                         *)
(* Text is modelled after lexing: a line is a sequence of tokens, a token  *)
(* being one whitespace character " ", one punctuation character, or one   *)
(* maximal run of word characters (an identifier, a keyword, a digit).     *)
(* The regular expressions of the source are translated to matchers over   *)
(* such token sequences.  Line numbers are 1-based here (0-based in the    *)
(* source); the `line` fields of records keep the source's 0-based value.  *)
(***************************************************************************)
EXTENDS Integers, Sequences, FiniteSets, TLC

VARIABLES
    \* ---- TestDiscoveryService.parseTestsInFile ----
    lines,                  \* content.split('\n'), each line a token sequence
    i,                      \* loop index of the scan (1-based)
    testClasses,            \* the SpockTestClass[] being built
    currentClass,           \* index into testClasses of currentClass, 0 = null
    inClass,
    classBraceBalance,
    seenClassOpeningBrace,
    classNestingLevel,
    dpc,                    \* "idle" | "scan" | "done" | "raised"
    tableDesc,              \* what the where block of the text was written from
    \* ---- TestResultParser.parseConsoleOutput ----
    consoleDesc,            \* what each console line was written from
    output,                 \* output.split('\n'), each line a token sequence
    testName,               \* the method name searched for (token sequence)
    ci,                     \* index of the `for (const line of lines)` loop
    results,                \* the TestIterationResult[] being built
    cpc,                    \* "idle" | "scan" | "done"
    \* ---- TestResultParser.parseXmlReport / parseTestResults ----
    fileState,              \* "absent" | "unreadable" | "ok"
    xmlDesc,                \* the testcases the report was written from
    xmlContent,             \* the report as a sequence of XML tokens
    lastIndex,              \* testcaseRegex.lastIndex (token position)
    xmlResults,             \* results of parseXmlReport
    thrown,                 \* TRUE iff a fault escaped parseXmlReport
    returned,               \* what parseTestResults returned
    xpc,                    \* "idle" | "exists" | "read" | "scan" | "xmlDone" | "done"
    \* ---- a caller that parses again and again ----
    calls,                  \* the parseTestsInFile calls that returned: text and result
    consoleCalls,           \* the parseConsoleOutput calls that returned
    \* ---- SpockTestController.runHandler / runTest ----
    request,                \* the TestRunRequest: hasInclude, include, exclude
    children,               \* item -> its children, in insertion order
    queue,                  \* the queue of runHandler
    isCancellationRequested,
    runCalls,               \* the items runTest was called with, in call order
    events,                 \* what was reported to the TestRun, in order
    result,                 \* how the execution of the current test went
    rpc,                    \* "idle" | "loop" | "runTest" | "ended"
    \* ---- executeTest: the build process, its timers and its promise ----
    proc,                   \* "none" | "running" | "exited" | "spawnFailed"
    exitCode,               \* the code of the 'close' event: "0", "1" or "null"
    killed,                 \* childProcess.killed
    processKilled,
    timeoutId,              \* the 5-minute timer: "none" | "pending" | "cleared" | "fired"
    killTimer,              \* the 10-second timer: "none" | "pending" | "fired"
    signals,                \* the signals delivered to the process and who sent them
    stdout,                 \* the chunks of stdout collected so far
    resolved,               \* <<>> or <<the TestResult the promise resolved with>>
    handled,                \* the timeout, close and error events handled, in order
    \* ---- startDebugSession / waitForJvmDebugPort ----
    variant,                \* "DebugService" | "SpockTestController"
    elapsed,                \* Date.now() - startTime, in check intervals
    consecutiveSuccesses,
    probes,                 \* the outcomes of checkJvmDebugPort, in order
    jvmReady,               \* what waitForJvmDebugPort returned: "" | "true" | "false"
    retryCount,
    attempts,               \* the outcomes of attemptDebugConnection, in order
    settled,                \* the promise of startDebugSession
    gpc,                    \* "idle" | "wait" | "sleep" | "ensure" | "attach" | "done" | "abandoned"
    \* ---- file watchers, discoverAllTests, getOrCreateFile ----
    fsFiles,                \* the URIs of the .groovy files of the workspace
    fileItems,              \* controller.items: URI -> the file item, 0 = none
    created,                \* number of items made by createTestItem
    lastEvent,              \* URI -> the most recent watcher event, "" = none
    foundFiles              \* <<>> or <<what findFiles resolved with>>

discoveryVars == <<lines, i, testClasses, currentClass, inClass, classBraceBalance,
                   seenClassOpeningBrace, classNestingLevel, dpc, tableDesc>>
consoleVars   == <<consoleDesc, output, testName, ci, results, cpc>>
xmlVars       == <<fileState, xmlDesc, xmlContent, lastIndex, xmlResults, thrown,
                   returned, xpc>>
repeatVars    == <<calls, consoleCalls>>
runVars       == <<request, children, queue, isCancellationRequested, runCalls, events,
                   result, rpc>>
execVars      == <<proc, exitCode, killed, processKilled, timeoutId, killTimer, signals,
                   stdout, resolved, handled>>
debugVars     == <<variant, elapsed, consecutiveSuccesses, probes, jvmReady, retryCount,
                   attempts, settled, gpc>>
watchVars     == <<fsFiles, fileItems, created, lastEvent, foundFiles>>
vars          == <<discoveryVars, consoleVars, xmlVars, repeatVars, runVars, execVars,
                   debugVars, watchVars>>

(***************************************************************************)
(* Token helpers                                                           *)
(***************************************************************************)
NonWordTokens == {" ", "{", "}", "(", ")", ":", ".", ",", "\"", "'", "//", "[", "]",
                  "#", ">", "<", "|", ";", "\r", "-"}
DigitTokens   == {"0", "1", "2", "3", "4", "5", "6", "7", "8", "9"}

\* s[p], or the empty string past either end of s
At(s, p) == IF p \in 1..Len(s) THEN s[p] ELSE ""

\* \s
IsWs(t) == t = " " \/ t = "\r"

\* \w+ : one token made of word characters
IsWord(t) == t # "" /\ t \notin NonWordTokens

\* [a-zA-Z_][a-zA-Z0-9_]* : a word token that does not start with a digit
IsIdent(t) == IsWord(t) /\ t \notin DigitTokens

IsQuote(t) == t = "\"" \/ t = "'"

\* \s* from position p: the first position >= p holding no whitespace
RECURSIVE SkipWs(_, _)
SkipWs(s, p) == IF p <= Len(s) /\ IsWs(s[p]) THEN SkipWs(s, p + 1) ELSE p

\* the last position <= p holding no whitespace (0 if none)
RECURSIVE SkipWsBack(_, _)
SkipWsBack(s, p) == IF p >= 1 /\ IsWs(s[p]) THEN SkipWsBack(s, p - 1) ELSE p

\* String.prototype.trim
Trim(s) == SubSeq(s, SkipWs(s, 1), SkipWsBack(s, Len(s)))

\* the first position >= p of s holding a token of set T, Len(s)+1 if none
RECURSIVE FirstIn(_, _, _)
FirstIn(s, p, T) ==
    IF p > Len(s) THEN Len(s) + 1
    ELSE IF s[p] \in T THEN p ELSE FirstIn(s, p + 1, T)

\* number of positions of s holding token t
Count(s, t) == Cardinality({k \in 1..Len(s) : s[k] = t})

\* startsWith on a trimmed line
StartsWith(s, t) == At(s, 1) = t

(***************************************************************************)
(* Numbers as digit tokens                                                 *)
(***************************************************************************)
DigitSeq == <<"0", "1", "2", "3", "4", "5", "6", "7", "8", "9">>

DigitValue(t) == CHOOSE k \in 0..9 : DigitSeq[k + 1] = t

\* the decimal digits of n >= 0
RECURSIVE Digits(_)
Digits(n) == IF n < 10 THEN <<DigitSeq[n + 1]>>
             ELSE Append(Digits(n \div 10), DigitSeq[(n % 10) + 1])

\* parseInt of a string matched by \d+
RECURSIVE parseInt(_)
parseInt(ds) ==
    IF Len(ds) = 0 THEN 0
    ELSE 10 * parseInt(SubSeq(ds, 1, Len(ds) - 1)) + DigitValue(ds[Len(ds)])

\* \d* from position p: the first position >= p holding no digit
RECURSIVE SkipDigits(_, _)
SkipDigits(s, p) == IF p <= Len(s) /\ s[p] \in DigitTokens THEN SkipDigits(s, p + 1) ELSE p

\* the first position <= p, going backwards, that holds no digit (0 if none)
RECURSIVE SkipDigitsBack(_, _)
SkipDigitsBack(s, p) ==
    IF p >= 1 /\ s[p] \in DigitTokens THEN SkipDigitsBack(s, p - 1) ELSE p

(***************************************************************************)
(* TestDiscoveryService: patterns                                          *)
(***************************************************************************)
\* LIFECYCLE_METHODS with the two per-feature hooks forgotten
LIFECYCLE_METHODS_SpecHooksOnly == {<<"setupSpec">>, <<"cleanupSpec">>}

LIFECYCLE_METHODS == {<<"setup">>, <<"setupSpec">>, <<"cleanup">>, <<"cleanupSpec">>}

BLOCK_LABELS == {"given", "when", "then", "expect", "where"}

\* /^(?:abstract\s+)?class\s+(\w+)\s+extends\s+(?:[\w.]*\.)?Specification\b/
CLASS_REGEX(t) ==
    LET c  == IF At(t, 1) = "abstract" /\ IsWs(At(t, 2)) THEN SkipWs(t, 2) ELSE 1
        n  == SkipWs(t, c + 1)
        e  == SkipWs(t, n + 1)
        q0 == SkipWs(t, e + 1)
        head == /\ At(t, c) = "class"   /\ IsWs(At(t, c + 1))
                /\ IsWord(At(t, n))     /\ IsWs(At(t, n + 1))
                /\ At(t, e) = "extends" /\ IsWs(At(t, e + 1))
        tail == \E q \in q0..Len(t) :
                    /\ t[q] = "Specification"
                    /\ \A k \in q0..(q - 1) : IsWord(t[k]) \/ t[k] = "."
                    /\ (q = q0 \/ t[q - 1] = ".")
                    /\ ~IsWord(At(t, q + 1))
    IN  [matched |-> head /\ tail, name |-> IF head THEN t[n] ELSE ""]

\* /^(?:def|void)\s+(['"]([^'"]+)['"]|([a-zA-Z_][a-zA-Z0-9_]*))\s*(?:\([^)]*\))?\s*(\{)?\s*$/
\* group2: the quoted text, group3: the bare identifier, group4: the brace
METHOD_HEADER_REGEX(t) ==
    LET p      == SkipWs(t, 2)
        kw     == At(t, 1) \in {"def", "void"} /\ IsWs(At(t, 2))
        quoted == IsQuote(At(t, p))
        q      == FirstIn(t, p + 1, {"\"", "'"})
        nameOk == IF quoted THEN q <= Len(t) /\ q > p + 1 ELSE IsIdent(At(t, p))
        r1     == SkipWs(t, IF quoted THEN q + 1 ELSE p + 1)
        paren  == At(t, r1) = "("
        cp     == FirstIn(t, r1 + 1, {")"})
        r3     == SkipWs(t, IF paren THEN cp + 1 ELSE r1)
        brace  == At(t, r3) = "{"
        r4     == SkipWs(t, IF brace THEN r3 + 1 ELSE r3)
        ok     == kw /\ nameOk /\ (paren => cp <= Len(t)) /\ r4 > Len(t)
    IN  [matched |-> ok,
         group2  |-> IF ok /\ quoted THEN SubSeq(t, p + 1, q - 1) ELSE <<>>,
         group3  |-> IF ok /\ ~quoted THEN <<t[p]>> ELSE <<>>,
         group4  |-> ok /\ brace]

\* /^(given|when|then|expect|where)\s*:\s*$/
BLOCK_LABEL_REGEX(t) ==
    LET c == SkipWs(t, 2)
    IN  At(t, 1) \in BLOCK_LABELS /\ At(t, c) = ":" /\ SkipWs(t, c + 1) > Len(t)

\* /^where\s*:\s*$/
WHERE_BLOCK_REGEX(t) ==
    LET c == SkipWs(t, 2)
    IN  At(t, 1) = "where" /\ At(t, c) = ":" /\ SkipWs(t, c + 1) > Len(t)

\* countBraceDelta
countBraceDelta(text) == Count(text, "{") - Count(text, "}")

(***************************************************************************)
(* TestDiscoveryService: look-ahead helpers                                *)
(***************************************************************************)
Min(a, b) == IF a <= b THEN a ELSE b

\* the exclusive upper offsets of the two look-ahead loops
BRACE_LOOKAHEAD == 5
LABEL_LOOKAHEAD == 50

\* the loop of hasOpeningBraceOnOrNextLine from line j up to line hi
RECURSIVE BraceLoop(_, _, _)
BraceLoop(ls, j, hi) ==
    IF j > hi THEN FALSE
    ELSE LET t == Trim(ls[j])
         IN  IF Len(t) = 0 THEN BraceLoop(ls, j + 1, hi)
             ELSE IF StartsWith(t, "//") THEN BraceLoop(ls, j + 1, hi)
             ELSE StartsWith(t, "{")

\* source: j = startIndex+1 .. min(lines.length, startIndex+5)-1, 0-based
hasOpeningBraceOnOrNextLine(ls, startIndex) ==
    \/ Count(Trim(ls[startIndex]), "{") > 0
    \/ BraceLoop(ls, startIndex + 1, Min(Len(ls), startIndex + BRACE_LOOKAHEAD - 1))

\* the loop of lineHasSpockBlockLabelNearby from line j up to line hi
RECURSIVE LabelLoop(_, _, _)
LabelLoop(ls, j, hi) ==
    IF j > hi THEN FALSE
    ELSE LET t == Trim(ls[j])
         IN  IF Len(t) = 0 THEN LabelLoop(ls, j + 1, hi)
             ELSE IF BLOCK_LABEL_REGEX(t) THEN TRUE
             ELSE IF t = <<"}">> THEN FALSE
             ELSE LabelLoop(ls, j + 1, hi)

\* lineHasSpockBlockLabelNearby looking ahead to the end of the file
lineHasSpockBlockLabelNearby_WholeFile(ls, startIndex) ==
    LabelLoop(ls, startIndex + 1, Len(ls))

\* source: j = startIndex+1 .. min(lines.length, startIndex+50)-1, 0-based
lineHasSpockBlockLabelNearby(ls, startIndex) ==
    LabelLoop(ls, startIndex + 1, Min(Len(ls), startIndex + LABEL_LOOKAHEAD - 1))

\* the inner loop of findWhereBlock: the end of the where block that starts at w
RECURSIVE WhereEnd_PastEof(_, _, _)
WhereEnd_PastEof(ls, w, j) ==
    IF j > Len(ls) THEN [found |-> TRUE, startLine |-> w - 1, endLine |-> j - 1]
    ELSE LET t == Trim(ls[j])
         IN  IF t = <<"}">> \/ (Len(t) = 0 /\ j = Len(ls))
             THEN [found |-> TRUE, startLine |-> w - 1, endLine |-> j - 2]
             ELSE WhereEnd_PastEof(ls, w, j + 1)

RECURSIVE WhereEnd(_, _, _)
WhereEnd(ls, w, j) ==
    IF j > Len(ls) THEN [found |-> FALSE, startLine |-> 0, endLine |-> 0]
    ELSE LET t == Trim(ls[j])
         IN  IF t = <<"}">> \/ (Len(t) = 0 /\ j = Len(ls))
             THEN [found |-> TRUE, startLine |-> w - 1, endLine |-> j - 2]
             ELSE WhereEnd(ls, w, j + 1)

\* the outer loop of findWhereBlock at line k
RECURSIVE WhereLoop(_, _, _, _)
WhereLoop(ls, k, braceBalance, inMethod) ==
    IF k > Len(ls) THEN [found |-> FALSE, startLine |-> 0, endLine |-> 0]
    ELSE LET delta == countBraceDelta(ls[k])
             bal   == braceBalance + delta
             inM   == inMethod \/ delta > 0
         IN  IF inM /\ bal <= 0 THEN [found |-> FALSE, startLine |-> 0, endLine |-> 0]
             ELSE IF inM /\ WHERE_BLOCK_REGEX(Trim(ls[k])) THEN WhereEnd(ls, k, k + 1)
             ELSE WhereLoop(ls, k + 1, bal, inM)

findWhereBlock(ls, methodStartLine) == WhereLoop(ls, methodStartLine, 0, FALSE)

(***************************************************************************)
(* TestDiscoveryService: data table rows and value coercion                *)
(***************************************************************************)
\* the separators of parseDataTableRow, in the order they are tried
separators == << <<"|", "|">>, <<";", ";">>, <<"|">>, <<";">> >>

\* s holds the token sequence sep at position p
HoldsAt(s, p, sep) ==
    p + Len(sep) - 1 <= Len(s) /\ SubSeq(s, p, p + Len(sep) - 1) = sep

\* (line.match(new RegExp(sep, 'g')) || []).length : matches do not overlap
RECURSIVE CountMatches(_, _, _)
CountMatches(s, sep, p) ==
    IF p > Len(s) THEN 0
    ELSE IF HoldsAt(s, p, sep) THEN 1 + CountMatches(s, sep, p + Len(sep))
    ELSE CountMatches(s, sep, p + 1)

\* the loop over separators: the first one with the strictly greatest count
RECURSIVE BestSeparator(_, _, _, _)
BestSeparator(line, k, best, maxCount) ==
    IF k > Len(separators) THEN best
    ELSE LET count == CountMatches(line, separators[k], 1)
         IN  IF count > maxCount
             THEN BestSeparator(line, k + 1, separators[k], count)
             ELSE BestSeparator(line, k + 1, best, maxCount)

\* String.prototype.split(sep): the pieces between the matches of sep from
\* position p on, the current piece having started at position from
RECURSIVE Split(_, _, _, _)
Split(s, sep, p, from) ==
    IF p > Len(s) THEN <<SubSeq(s, from, Len(s))>>
    ELSE IF HoldsAt(s, p, sep)
         THEN <<SubSeq(s, from, p - 1)>> \o Split(s, sep, p + Len(sep), p + Len(sep))
    ELSE Split(s, sep, p + 1, from)

\* parts.map(cell => cell.trim()).filter(cell => cell.length > 0)
TrimmedCells(parts) ==
    SelectSeq([k \in 1..Len(parts) |-> Trim(parts[k])], LAMBDA c : Len(c) > 0)

\* parseDataTableRow with the separators tried in the order ; ;; | ||
parseDataTableRow_LastListedWins(line) ==
    LET best == IF Count(line, ";") >= Count(line, "|") /\ Count(line, ";") > 0
                THEN <<";">>
                ELSE IF Count(line, "|") > 0 THEN <<"|">> ELSE <<>>
    IN  IF best # <<>> THEN TrimmedCells(Split(line, best, 1, 1)) ELSE <<>>

parseDataTableRow(line) ==
    LET bestSeparator == BestSeparator(line, 1, <<>>, 0)
    IN  IF bestSeparator # <<>>
        THEN TrimmedCells(Split(line, bestSeparator, 1, 1))
        ELSE <<>>

\* digits without their trailing zeros
RECURSIVE StripZeros(_)
StripZeros(ds) ==
    IF Len(ds) = 0 THEN <<>>
    ELSE IF ds[Len(ds)] = "0" THEN StripZeros(SubSeq(ds, 1, Len(ds) - 1))
    ELSE ds

AllDigits(s, a, b) == a <= b /\ \A p \in a..b : s[p] \in DigitTokens

\* a typed value: its type and the text String(value) gives for it
Value(type, val) == [type |-> type, val |-> val]

\* the number with the given sign, integer digits and fraction digits
NumberValue(neg, whole, frac) ==
    LET w == parseInt(whole)
        f == StripZeros(frac)
    IN  Value("number",
              IF w = 0 /\ f = <<>> THEN <<"0">>
              ELSE (IF neg THEN <<"-">> ELSE <<>>) \o Digits(w)
                     \o (IF f = <<>> THEN <<>> ELSE <<".">> \o f))

\* parseValue: /^-?\d+$/, /^-?\d+\.\d+$/, true, false, null, quotes, raw
parseValue(value) ==
    LET n   == Len(value)
        neg == At(value, 1) = "-"
        s   == IF neg THEN 2 ELSE 1
        dot == FirstIn(value, s, {"."})
    IN  IF AllDigits(value, s, n) THEN NumberValue(neg, SubSeq(value, s, n), <<>>)
        ELSE IF dot < n /\ AllDigits(value, s, dot - 1) /\ AllDigits(value, dot + 1, n)
             THEN NumberValue(neg, SubSeq(value, s, dot - 1), SubSeq(value, dot + 1, n))
        ELSE IF value = <<"true">> THEN Value("boolean", <<"true">>)
        ELSE IF value = <<"false">> THEN Value("boolean", <<"false">>)
        ELSE IF value = <<"null">> THEN Value("null", <<"null">>)
        ELSE IF \/ At(value, 1) = "\"" /\ At(value, n) = "\""
                \/ At(value, 1) = "'" /\ At(value, n) = "'"
             THEN Value("string", SubSeq(value, 2, n - 1))
        ELSE Value("string", value)

(***************************************************************************)
(* TestDiscoveryService: data pipes and parseDataTable                     *)
(***************************************************************************)
\* /^(\s*)(\w+)\s*<<\s*(.+)$/ on the untrimmed line: group 2 and the trimmed
\* group 3; `.` matches no "\r", so group 3 must reach the end of the line
\* without one
DATA_PIPE_REGEX(line) ==
    LET p    == SkipWs(line, 1)
        q    == SkipWs(line, p + 1)
        r    == q + 2
        crs  == {k \in r..Len(line) : line[k] = "\r"}
        ok   == /\ IsWord(At(line, p))
                /\ At(line, q) = "<" /\ At(line, q + 1) = "<"
                /\ r <= Len(line)
                /\ \A c \in crs : c < Len(line) /\ \A k \in r..c : IsWs(line[k])
                /\ line[Len(line)] # "\r"
    IN  [matched  |-> ok,
         variable |-> IF ok THEN line[p] ELSE "",
         source   |-> IF ok THEN Trim(SubSeq(line, r, Len(line))) ELSE <<>>]

\* an array literal read from the pipe line alone
ArrayContent_FirstLineOnly(ls, arrayContent, j, endLine) == arrayContent

\* the while loop that collects an array literal over the following lines
RECURSIVE ArrayContent(_, _, _, _)
ArrayContent(ls, arrayContent, j, endLine) ==
    IF j <= endLine /\ Count(arrayContent, "]") = 0
    THEN ArrayContent(ls, arrayContent \o <<" ">> \o Trim(ls[j]), j + 1, endLine)
    ELSE arrayContent

\* content.match(/new Person\([^)]+\)/g) from position p on
RECURSIVE PersonMatches(_, _)
PersonMatches(c, p) ==
    IF p > Len(c) THEN <<>>
    ELSE LET cl == FirstIn(c, p + 4, {")"})
         IN  IF HoldsAt(c, p, <<"new", " ", "Person", "(">>) /\ cl <= Len(c) /\ cl > p + 4
             THEN <<SubSeq(c, p, cl)>> \o PersonMatches(c, cl + 1)
             ELSE PersonMatches(c, p + 1)

\* personStr.match(/name:\s*"([^"]+)"/): the name, or Unknown
RECURSIVE PersonName(_, _)
PersonName(s, p) ==
    IF p > Len(s) THEN <<"Unknown">>
    ELSE LET o == SkipWs(s, p + 2)
             c == FirstIn(s, o + 1, {"\""})
         IN  IF /\ s[p] = "name" /\ At(s, p + 1) = ":" /\ At(s, o) = "\""
                /\ c <= Len(s) /\ c > o + 1
             THEN SubSeq(s, o + 1, c - 1)
             ELSE PersonName(s, p + 1)

\* personStr.match(/age:\s*(\d+)/): the age, or 0
RECURSIVE PersonAge(_, _)
PersonAge(s, p) ==
    IF p > Len(s) THEN 0
    ELSE LET o == SkipWs(s, p + 2)
         IN  IF s[p] = "age" /\ At(s, p + 1) = ":" /\ At(s, o) \in DigitTokens
             THEN parseInt(SubSeq(s, o, SkipDigits(s, o) - 1))
             ELSE PersonAge(s, p + 1)

\* parseDataPipeSource: the values a data source stands for
parseDataPipeSource(dataSource) ==
    LET n        == Len(dataSource)
        content  == Trim(SubSeq(dataSource, 2, n - 1))
        persons  == PersonMatches(content, 1)
        elements == Split(content, <<",">>, 1, 1)
    IN  IF At(dataSource, 1) = "[" /\ At(dataSource, n) = "]"
        THEN IF content = <<>> THEN <<>>
             ELSE IF (\E p \in 1..Len(content) : HoldsAt(content, p, <<"new", " ", "Person">>))
                     /\ persons # <<>>
             THEN [k \in 1..Len(persons) |->
                      Value("object", <<"name", ":">> \o PersonName(persons[k], 1)
                                        \o <<"age", ":">> \o Digits(PersonAge(persons[k], 1)))]
             ELSE [k \in 1..Len(elements) |-> parseValue(Trim(elements[k]))]
        ELSE <<Value("string", dataSource)>>

\* a property name that is an array index: own keys of that shape come
\* first, in ascending order, when an object's keys are listed
IsIndexKey(key) ==
    /\ AllDigits(key, 1, Len(key))
    /\ (Len(key) = 1 \/ key[1] # "0")

\* dataValues[key] = value on an object held as its list of own entries
SetKey(dataValues, key, value) ==
    LET n    == Len(dataValues)
        at   == {k \in 1..n : dataValues[k].key = key}
        \* the entries an index key goes after
        pre  == Cardinality({k \in 1..n : /\ IsIndexKey(dataValues[k].key)
                                          /\ parseInt(dataValues[k].key) < parseInt(key)})
        e    == [key |-> key, value |-> value]
    IN  IF at # {} THEN [k \in 1..n |-> IF k \in at THEN e ELSE dataValues[k]]
        ELSE IF IsIndexKey(key)
             THEN SubSeq(dataValues, 1, pre) \o <<e>> \o SubSeq(dataValues, pre + 1, n)
        ELSE Append(dataValues, e)

\* String(value)
String(value) ==
    IF value.type = "object" THEN <<"[", "object", " ", "Object", "]">> ELSE value.val

\* the properties every object inherits from Object.prototype, as far as a
\* placeholder name can spell them
ObjectPrototype == {"constructor", "toString", "toLocaleString", "valueOf",
                    "hasOwnProperty", "isPrototypeOf", "propertyIsEnumerable"}

\* String(f) of a built-in function
NativeFunction(name) ==
    Value("function", <<"function", " ", name, "(", ")", " ", "{", " ", "[", "native",
                        " ", "code", "]", " ", "}">>)

\* dataValues[placeholder]: the own entry, else the inherited property, else
\* undefined
Lookup(dataValues, placeholder) ==
    LET at == {k \in 1..Len(dataValues) : dataValues[k].key = placeholder}
    IN  IF at # {} THEN dataValues[CHOOSE k \in at : TRUE].value
        ELSE IF Len(placeholder) = 1 /\ placeholder[1] \in ObjectPrototype
             THEN NativeFunction(IF placeholder[1] = "constructor" THEN "Object"
                                 ELSE placeholder[1])
        ELSE Value("undefined", <<>>)

\* [a-zA-Z0-9_.]* from position p: the first position past the name
RECURSIVE SkipName(_, _)
SkipName(s, p) ==
    IF p <= Len(s) /\ (IsWord(s[p]) \/ s[p] = ".") THEN SkipName(s, p + 1) ELSE p

\* displayName.replace(PLACEHOLDER_REGEX, ...) from position p on
RECURSIVE ReplacePlaceholders(_, _, _)
ReplacePlaceholders(s, p, dataValues) ==
    IF p > Len(s) THEN <<>>
    ELSE IF s[p] = "#" /\ IsIdent(At(s, p + 1))
         THEN LET q     == SkipName(s, p + 1)
                  value == Lookup(dataValues, SubSeq(s, p + 1, q - 1))
              IN  (IF value.type # "undefined" THEN String(value) ELSE SubSeq(s, p, q - 1))
                    \o ReplacePlaceholders(s, q, dataValues)
    ELSE <<s[p]>> \o ReplacePlaceholders(s, p + 1, dataValues)

\* Object.entries(dataValues).map(([key, value]) => `${key}: ${value}`).join(', ')
RECURSIVE ValuePairs(_, _)
ValuePairs(dataValues, k) ==
    IF k > Len(dataValues) THEN <<>>
    ELSE dataValues[k].key \o <<":", " ">> \o String(dataValues[k].value)
           \o (IF k < Len(dataValues) THEN <<",", " ">> ELSE <<>>)
           \o ValuePairs(dataValues, k + 1)

\* generateDisplayName
generateDisplayName(methodName, dataValues) ==
    IF Count(methodName, "#") > 0
    THEN ReplacePlaceholders(methodName, 1, dataValues)
    ELSE methodName \o <<" ", "[">> \o ValuePairs(dataValues, 1) \o <<"]">>

\* variables.forEach((variable, colIndex) => ...) from column colIndex on,
\* every header cell taking part, `_` included
RECURSIVE RowValues_PlaceholderKept(_, _, _, _)
RowValues_PlaceholderKept(variables, row, colIndex, dataValues) ==
    IF colIndex > Len(variables) THEN dataValues
    ELSE RowValues_PlaceholderKept(variables, row, colIndex + 1,
             IF colIndex <= Len(row)
             THEN SetKey(dataValues, Trim(variables[colIndex]), parseValue(Trim(row[colIndex])))
             ELSE dataValues)

\* variables.forEach((variable, colIndex) => ...) from column colIndex on
RECURSIVE RowValues(_, _, _, _)
RowValues(variables, row, colIndex, dataValues) ==
    IF colIndex > Len(variables) THEN dataValues
    ELSE RowValues(variables, row, colIndex + 1,
             IF colIndex <= Len(row) /\ Trim(variables[colIndex]) # <<"_">>
             THEN SetKey(dataValues, Trim(variables[colIndex]), parseValue(Trim(row[colIndex])))
             ELSE dataValues)

\* dataValues.forEach of a pipe line with index taken from the element
RECURSIVE PushPipe_ElementIndex(_, _, _, _, _, _)
PushPipe_ElementIndex(iterations, variableName, values, k, line, methodName) ==
    IF k > Len(values) THEN iterations
    ELSE PushPipe_ElementIndex(Append(iterations,
                      [index       |-> k - 1,
                       dataValues  |-> <<[key |-> <<variableName>>, value |-> values[k]]>>,
                       displayName |-> generateDisplayName(methodName,
                                          <<[key |-> <<variableName>>, value |-> values[k]]>>),
                       line        |-> line]),
                  variableName, values, k + 1, line, methodName)

\* dataValues.forEach((value, index) => iterations.push(...)) of a pipe line
RECURSIVE PushPipe(_, _, _, _, _, _)
PushPipe(iterations, variableName, values, k, line, methodName) ==
    IF k > Len(values) THEN iterations
    ELSE PushPipe(Append(iterations,
                      [index       |-> Len(iterations),
                       dataValues  |-> <<[key |-> <<variableName>>, value |-> values[k]]>>,
                       displayName |-> generateDisplayName(methodName,
                                          <<[key |-> <<variableName>>, value |-> values[k]]>>),
                       line        |-> line]),
                  variableName, values, k + 1, line, methodName)

\* the loop of parseDataTable over the lines startLine+1 .. endLine of the
\* block (k, endLine: 1-based); st holds iterations, dataTable, variables
\* and isFirstRow
RECURSIVE TableLoop(_, _, _, _, _)
TableLoop(ls, k, endLine, st, methodName) ==
    IF k > endLine THEN st
    ELSE LET line == ls[k]
             t    == Trim(line)
             pm   == DATA_PIPE_REGEX(line)
             src  == IF StartsWith(pm.source, "[")
                     THEN ArrayContent(ls, pm.source, k + 1, endLine)
                     ELSE pm.source
             row  == parseDataTableRow(line)
         IN  IF t = <<>> \/ StartsWith(t, "//") THEN TableLoop(ls, k + 1, endLine, st, methodName)
             ELSE IF pm.matched
                  THEN TableLoop(ls, k + 1, endLine,
                           [st EXCEPT !.iterations =
                               PushPipe(@, pm.variable, parseDataPipeSource(src), 1, k - 1,
                                        methodName)],
                           methodName)
             ELSE IF Len(row) = 0 THEN TableLoop(ls, k + 1, endLine, st, methodName)
             ELSE IF st.isFirstRow
                  THEN TableLoop(ls, k + 1, endLine,
                           [st EXCEPT !.variables = row, !.isFirstRow = FALSE],
                           methodName)
             ELSE TableLoop(ls, k + 1, endLine, [st EXCEPT !.dataTable = Append(@, row)],
                            methodName)

\* dataTable.forEach with the iterations numbered from 1
RECURSIVE PushRows_IndexFromOne(_, _, _, _, _, _)
PushRows_IndexFromOne(iterations, dataTable, variables, k, startLine, methodName) ==
    IF k > Len(dataTable) THEN iterations
    ELSE LET dataValues == RowValues(variables, dataTable[k], 1, <<>>)
         IN  PushRows_IndexFromOne(Append(iterations,
                      [index       |-> Len(iterations) + 1,
                       dataValues  |-> dataValues,
                       displayName |-> generateDisplayName(methodName, dataValues),
                       line        |-> startLine + k]),
                  dataTable, variables, k + 1, startLine, methodName)

\* dataTable.forEach((row, index) => iterations.push(...)); the range of an
\* iteration is taken on line startLine + 1 + index (0-based)
RECURSIVE PushRows(_, _, _, _, _, _)
PushRows(iterations, dataTable, variables, k, startLine, methodName) ==
    IF k > Len(dataTable) THEN iterations
    ELSE LET dataValues == RowValues(variables, dataTable[k], 1, <<>>)
         IN  PushRows(Append(iterations,
                      [index       |-> Len(iterations),
                       dataValues  |-> dataValues,
                       displayName |-> generateDisplayName(methodName, dataValues),
                       line        |-> startLine + k]),
                  dataTable, variables, k + 1, startLine, methodName)

\* the state of parseDataTable after its loop; startLine, endLine: 0-based
TableScan(ls, startLine, endLine, methodName) ==
    TableLoop(ls, startLine + 2, endLine + 1,
              [iterations |-> <<>>, dataTable |-> <<>>, variables |-> <<>>,
               isFirstRow |-> TRUE],
              methodName)

\* parseDataTable; startLine, endLine: the 0-based lines of the where block
parseDataTable(ls, startLine, endLine, methodName) ==
    LET st == TableScan(ls, startLine, endLine, methodName)
    IN  PushRows(st.iterations, st.dataTable, st.variables, 1, startLine, methodName)

\* lines[startLine + 1 + index].length is read of a line the text lacks
parseDataTableThrows(ls, startLine, endLine) ==
    LET st == TableScan(ls, startLine, endLine, <<>>)
    IN  \E k \in 1..Len(st.dataTable) : startLine + k + 1 > Len(ls)

\* parseTestMethod: the SpockTestMethod of the heading at startLine
parseTestMethod(ls, startLine, methodName) ==
    LET w == findWhereBlock(ls, startLine)
    IN  [name |-> methodName, line |-> startLine - 1, isDataDriven |-> w.found,
         whereStart |-> w.startLine, whereEnd |-> w.endLine,
         dataIterations |-> IF w.found
                            THEN parseDataTable(ls, w.startLine, w.endLine, methodName)
                            ELSE <<>>]

\* parseTestMethod reads .length of a line the text lacks: lines[startLine],
\* lines[whereBlockInfo.endLine], or inside parseDataTable
parseTestMethodThrows(ls, startLine) ==
    LET w == findWhereBlock(ls, startLine)
    IN  \/ startLine \notin 1..Len(ls)
        \/ w.found /\ (w.endLine + 1) \notin 1..Len(ls)
        \/ w.found /\ parseDataTableThrows(ls, w.startLine, w.endLine)

(***************************************************************************)
(* Source texts fed to parseTestsInFile                                    *)
(***************************************************************************)
MaxLines == 5

ClassA       == <<"class", " ", "A", " ", "extends", " ", "Specification", " ", "{">>
ClassB       == <<"class", " ", "B", " ", "extends", " ", "spock", ".", "lang", ".",
                  "Specification", " ", "{">>
ClassNoBrace == <<"abstract", " ", "class", " ", "C", " ", "extends", " ", "Specification">>
OpenBrace    == <<"{">>
CloseBrace   == <<" ", " ", "}">>
DefQuoted    == <<" ", " ", "def", " ", "\"", "adds", " ", "numbers", "\"", "(", ")", " ", "{">>
DefSetupQ    == <<" ", " ", "def", " ", "\"", " ", "setup", "\"", "(", ")", " ", "{">>
DefCleanup   == <<" ", " ", "void", " ", "cleanupSpec", "(", ")", " ", "{">>
ExpectLabel  == <<" ", " ", " ", " ", "expect", ":">>

LinePool == {ClassA, ClassB, ClassNoBrace, OpenBrace, CloseBrace, DefQuoted, DefSetupQ,
             DefCleanup, ExpectLabel}

SeqsUpTo(S, n) == UNION {[1..k -> S] : k \in 0..n}

ClassLines == {ClassA, ClassB, ClassNoBrace}

\* texts without any class declaration, and texts that start with one
MaxPreamble == 2

SourceTexts ==
    SeqsUpTo(LinePool \ ClassLines, MaxPreamble)
      \cup {<<c>> \o b : c \in ClassLines, b \in SeqsUpTo(LinePool, MaxLines - 1)}

(***************************************************************************)
(* parseTestsInFile                                                        *)
(***************************************************************************)
DiscoveryIdle ==
    /\ lines = <<>> /\ i = 0 /\ testClasses = <<>> /\ currentClass = 0
    /\ inClass = FALSE /\ classBraceBalance = 0 /\ seenClassOpeningBrace = FALSE
    /\ classNestingLevel = 0 /\ dpc = "idle" /\ tableDesc = <<>>

\* the locals of parseTestsInFile before the loop, on a text of set texts
DiscoveryStart(texts) ==
    /\ lines \in texts
    /\ i = 1
    /\ testClasses = <<>>
    /\ currentClass = 0
    /\ inClass = FALSE
    /\ classBraceBalance = 0
    /\ seenClassOpeningBrace = FALSE
    /\ classNestingLevel = 0
    /\ dpc = "scan"
    /\ tableDesc = <<>>

DiscoveryInit == DiscoveryStart(SourceTexts)

\* "Update class brace balance and nesting level": the tail of the loop body,
\* applied to the locals as the branch above it left them
UpdateBalance(line, tc, cur, inC, bal, seen, nest) ==
    LET delta == countBraceDelta(line)
        seen2 == seen \/ delta > 0
        bal2  == bal + delta
    IN  /\ testClasses' = tc
        /\ IF ~inC
           THEN /\ currentClass' = cur /\ inClass' = inC /\ classBraceBalance' = bal
                /\ seenClassOpeningBrace' = seen /\ classNestingLevel' = nest
           ELSE IF nest > 0
           THEN /\ currentClass' = cur /\ inClass' = TRUE /\ classBraceBalance' = bal2
                /\ seenClassOpeningBrace' = seen2
                /\ classNestingLevel' = IF delta < 0 THEN nest - 1 ELSE nest
           ELSE IF seen2 /\ bal2 <= 0
           THEN /\ currentClass' = 0 /\ inClass' = FALSE /\ classBraceBalance' = 0
                /\ seenClassOpeningBrace' = FALSE /\ classNestingLevel' = 0
           ELSE /\ currentClass' = cur /\ inClass' = TRUE /\ classBraceBalance' = bal2
                /\ seenClassOpeningBrace' = seen2 /\ classNestingLevel' = nest

\* loop body, first branch: the line is a class declaration
ClassLine ==
    /\ dpc = "scan" /\ i <= Len(lines)
    /\ LET line  == lines[i]
           m     == CLASS_REGEX(Trim(line))
           top   == classNestingLevel = 0 /\ ~inClass
           delta == countBraceDelta(line)
       IN  /\ m.matched
           /\ IF top
              THEN UpdateBalance(line,
                       Append(testClasses, [name |-> m.name, line |-> i - 1, methods |-> <<>>]),
                       Len(testClasses) + 1, TRUE, classBraceBalance + delta,
                       seenClassOpeningBrace \/ delta > 0, classNestingLevel)
              ELSE UpdateBalance(line, testClasses, currentClass, inClass, classBraceBalance,
                       seenClassOpeningBrace,
                       IF inClass THEN classNestingLevel + 1 ELSE classNestingLevel)
    /\ i' = i + 1
    /\ UNCHANGED <<lines, dpc, tableDesc>>

\* the acceptance policy of a method heading at line k
AcceptsMethod(ls, k) ==
    LET m       == METHOD_HEADER_REGEX(Trim(ls[k]))
        rawName == Trim(IF m.group2 # <<>> THEN m.group2 ELSE m.group3)
        shouldAccept == m.group2 # <<>> \/ lineHasSpockBlockLabelNearby(ls, k)
        braceOk      == m.group4 \/ hasOpeningBraceOnOrNextLine(ls, k)
    IN  [rawName |-> rawName,
         accept  |-> /\ rawName # <<>>
                     /\ rawName \notin LIFECYCLE_METHODS
                     /\ shouldAccept /\ braceOk]

\* loop body, second branch: a method heading inside a top-level class
MethodLine ==
    /\ dpc = "scan" /\ i <= Len(lines)
    /\ LET line == lines[i]
           a    == AcceptsMethod(lines, i)
       IN  /\ ~CLASS_REGEX(Trim(line)).matched
           /\ inClass /\ currentClass # 0 /\ classNestingLevel = 0
           /\ METHOD_HEADER_REGEX(Trim(line)).matched
           /\ IF a.accept /\ parseTestMethodThrows(lines, i)
              THEN /\ dpc' = "raised"
                   /\ UNCHANGED <<i, testClasses, currentClass, inClass, classBraceBalance,
                                  seenClassOpeningBrace, classNestingLevel>>
              ELSE /\ UpdateBalance(line,
                          IF a.accept
                          THEN [testClasses EXCEPT ![currentClass].methods =
                                    Append(@, parseTestMethod(lines, i, a.rawName))]
                          ELSE testClasses,
                          currentClass, inClass, classBraceBalance, seenClassOpeningBrace,
                          classNestingLevel)
                   /\ i' = i + 1
                   /\ dpc' = dpc
    /\ UNCHANGED <<lines, tableDesc>>

\* loop body, neither branch taken
OtherLine ==
    /\ dpc = "scan" /\ i <= Len(lines)
    /\ LET line == lines[i]
       IN  /\ ~CLASS_REGEX(Trim(line)).matched
           /\ ~(/\ inClass /\ currentClass # 0 /\ classNestingLevel = 0
                /\ METHOD_HEADER_REGEX(Trim(line)).matched)
           /\ UpdateBalance(line, testClasses, currentClass, inClass, classBraceBalance,
                  seenClassOpeningBrace, classNestingLevel)
    /\ i' = i + 1
    /\ UNCHANGED <<lines, dpc, tableDesc>>

\* return testClasses
DiscoveryReturn ==
    /\ dpc = "scan" /\ i > Len(lines)
    /\ dpc' = "done"
    /\ UNCHANGED <<lines, i, testClasses, currentClass, inClass, classBraceBalance,
                   seenClassOpeningBrace, classNestingLevel, tableDesc>>

ConsoleIdle ==
    /\ consoleDesc = <<>> /\ output = <<>> /\ testName = <<>> /\ ci = 0
    /\ results = <<>> /\ cpc = "idle"

XmlIdle ==
    /\ fileState = "absent" /\ xmlDesc = <<>> /\ xmlContent = <<>> /\ lastIndex = 0
    /\ xmlResults = <<>> /\ thrown = FALSE /\ returned = <<>> /\ xpc = "idle"

RepeatIdle == calls = <<>> /\ consoleCalls = <<>>

RunIdle ==
    /\ request = <<>> /\ children = <<>> /\ queue = <<>>
    /\ isCancellationRequested = FALSE /\ runCalls = <<>> /\ events = <<>>
    /\ result = "" /\ rpc = "idle"

ExecIdle ==
    /\ proc = "none" /\ exitCode = "" /\ killed = FALSE /\ processKilled = FALSE
    /\ timeoutId = "none" /\ killTimer = "none" /\ signals = <<>> /\ stdout = <<>>
    /\ resolved = <<>> /\ handled = <<>>

DebugIdle ==
    /\ variant = "" /\ elapsed = 0 /\ consecutiveSuccesses = 0 /\ probes = <<>>
    /\ jvmReady = "" /\ retryCount = 0 /\ attempts = <<>> /\ settled = "pending"
    /\ gpc = "idle"

WatchIdle ==
    /\ fsFiles = {} /\ fileItems = <<>> /\ created = 0 /\ lastEvent = <<>>
    /\ foundFiles = <<>>

DiscoveryNext ==
    \/ (ClassLine /\ UNCHANGED <<consoleVars, xmlVars, repeatVars, runVars, execVars, debugVars, watchVars>>)
    \/ (MethodLine /\ UNCHANGED <<consoleVars, xmlVars, repeatVars, runVars, execVars, debugVars, watchVars>>)
    \/ (OtherLine /\ UNCHANGED <<consoleVars, xmlVars, repeatVars, runVars, execVars, debugVars, watchVars>>)
    \/ (DiscoveryReturn /\ UNCHANGED <<consoleVars, xmlVars, repeatVars, runVars, execVars, debugVars, watchVars>>)

InitDiscovery ==
    DiscoveryInit /\ ConsoleIdle /\ XmlIdle /\ RepeatIdle /\ RunIdle /\ ExecIdle
      /\ DebugIdle /\ WatchIdle

SpecDiscovery == InitDiscovery /\ [][DiscoveryNext]_vars

(***************************************************************************)
(* TestResultParser.parseConsoleOutput                                     *)
(***************************************************************************)
STATUSES == {"PASSED", "FAILED", "SKIPPED"}

\* the method name in the pattern with `.` left unescaped: it matches any token
NameAt_Unescaped(line, q, name) ==
    /\ q + Len(name) - 1 <= Len(line)
    /\ \A k \in 1..Len(name) : name[k] = "." \/ line[q + k - 1] = name[k]

\* testName.replace(/[.*+?^${}()|[\]\\]/g, '\\$&'): the name matches literally at q
NameAt(line, q, name) ==
    /\ q + Len(name) - 1 <= Len(line)
    /\ \A k \in 1..Len(name) : line[q + k - 1] = name[k]

\* >\s*NAME\s*\[([^\]]+),\s*#(\d+)\]\s*(PASSED|FAILED|SKIPPED) with the `>` at p
IterationAt(line, p, name) ==
    LET q  == SkipWs(line, p + 1)
        r  == SkipWs(line, q + Len(name))
        b  == FirstIn(line, r + 1, {"]"})
        h  == SkipDigitsBack(line, b - 1)
        c  == SkipWsBack(line, h - 1)
        st == SkipWs(line, b + 1)
        ok == /\ At(line, p) = ">"
              /\ NameAt(line, q, name)
              /\ At(line, r) = "["
              /\ b <= Len(line)
              /\ h < b - 1 /\ h > r /\ line[h] = "#"
              /\ c > r + 1 /\ line[c] = ","
              /\ At(line, st) \in STATUSES
    IN  [matched |-> ok,
         group1  |-> IF ok THEN SubSeq(line, r + 1, c - 1) ELSE <<>>,
         group2  |-> IF ok THEN SubSeq(line, h + 1, b - 1) ELSE <<>>,
         group3  |-> IF ok THEN line[st] ELSE ""]

\* line.match(/^.*>\s*NAME.../): `.*` is greedy and stops at a line terminator,
\* so the match is the one at the last `>` that admits one
iterationMatch(line, name) ==
    LET P == {p \in 1..Len(line) :
                /\ \A k \in 1..(p - 1) : line[k] # "\r"
                /\ IterationAt(line, p, name).matched}
    IN  IF P = {} THEN [matched |-> FALSE, group1 |-> <<>>, group2 |-> <<>>, group3 |-> ""]
        ELSE IterationAt(line, CHOOSE p \in P : \A o \in P : o <= p, name)

\* counting SKIPPED as a success
StatusIsSuccess_NotFailed(status) == status # "FAILED"

\* const success = status === 'PASSED'
StatusIsSuccess(status) == status = "PASSED"

\* Number(value) for a trimmed, non-empty text: a decimal literal with an
\* optional sign, or Infinity, gives a number; any other text here gives NaN
IsNumeric(value) ==
    LET n      == Len(value)
        signed == At(value, 1) \in {"-", "+"}
        s      == IF signed THEN 2 ELSE 1
        dot    == FirstIn(value, s, {"."})
    IN  \/ AllDigits(value, s, n)
        \/ /\ dot <= n
           /\ dot > s \/ dot < n
           /\ dot = s \/ AllDigits(value, s, dot - 1)
           /\ dot = n \/ AllDigits(value, dot + 1, n)
        \/ SubSeq(value, s, n) = <<"Infinity">>

NumberOf(value) ==
    LET n   == Len(value)
        neg == At(value, 1) = "-"
        s   == IF At(value, 1) \in {"-", "+"} THEN 2 ELSE 1
        dot == FirstIn(value, s, {"."})
    IN  IF SubSeq(value, s, n) = <<"Infinity">>
        THEN Value("number", (IF neg THEN <<"-">> ELSE <<>>) \o <<"Infinity">>)
        ELSE NumberValue(neg, SubSeq(value, s, dot - 1), SubSeq(value, dot + 1, n))

\* the coercion with `null` read as the null value, as parseValue reads it
CoerceParameter_NullValue(value) ==
    IF value = <<"null">> THEN Value("null", <<"null">>)
    ELSE parseValue(value)

\* parseParameters: true, false, Number, double quotes, single quotes, raw
CoerceParameter(value) ==
    LET n == Len(value)
    IN  IF value = <<"true">> THEN Value("boolean", <<"true">>)
        ELSE IF value = <<"false">> THEN Value("boolean", <<"false">>)
        ELSE IF value # <<>> /\ IsNumeric(value) THEN NumberOf(value)
        ELSE IF At(value, 1) = "\"" /\ At(value, n) = "\""
             THEN Value("string", SubSeq(value, 2, n - 1))
        ELSE IF At(value, 1) = "'" /\ At(value, n) = "'"
             THEN Value("string", SubSeq(value, 2, n - 1))
        ELSE Value("string", value)

\* for (const pair of pairs): a pair with a `:` after its first character
\* sets parameters[key]
RECURSIVE PairsLoop(_, _, _)
PairsLoop(pairs, k, parameters) ==
    IF k > Len(pairs) THEN parameters
    ELSE LET pair       == pairs[k]
             colonIndex == FirstIn(pair, 1, {":"})
             key        == Trim(SubSeq(pair, 1, colonIndex - 1))
             value      == Trim(SubSeq(pair, colonIndex + 1, Len(pair)))
         IN  IF colonIndex > 1 /\ colonIndex <= Len(pair)
             THEN PairsLoop(pairs, k + 1, SetKey(parameters, key, CoerceParameter(value)))
             ELSE PairsLoop(pairs, k + 1, parameters)

\* parametersString.split(',').map(pair => pair.trim())
parseParameters(parametersString) ==
    LET parts == Split(parametersString, <<",">>, 1, 1)
    IN  PairsLoop([k \in 1..Len(parts) |-> Trim(parts[k])], 1, <<>>)

\* the TestIterationResult built from a matching line; errorInfo is <<>> for
\* undefined and <<info>> otherwise (parameters are built by parseParameters)
ConsoleResult(line, name, m) ==
    LET index   == parseInt(m.group2)
        success == StatusIsSuccess(m.group3)
    IN  [index       |-> index,
         displayName |-> name \o <<" ", "[">> \o m.group1 \o <<",", " ", "#">>
                              \o Digits(index) \o <<"]">>,
         parameters  |-> parseParameters(m.group1),
         success     |-> success,
         duration    |-> 0,
         output      |-> Trim(line),
         errorInfo   |-> IF success THEN <<>>
                         ELSE <<[error |-> <<"Iteration", " ">> \o Digits(index)
                                               \o <<" ", m.group3>>]>>]

\* parseConsoleOutput as a function of its arguments
RECURSIVE ConsoleScan(_, _, _, _)
ConsoleScan(out, name, k, acc) ==
    IF k > Len(out) THEN acc
    ELSE LET m == iterationMatch(out[k], name)
         IN  ConsoleScan(out, name, k + 1,
                 IF m.matched THEN Append(acc, ConsoleResult(out[k], name, m)) ELSE acc)

parseConsoleOutput(out, name) == ConsoleScan(out, name, 1, <<>>)

(***************************************************************************)
(* Console texts: each line is written from a descriptor                   *)
(***************************************************************************)
MaxConsoleLines == 3

Bar == <<"bar">>
Dotted == <<"a", ".", "b">>
Axb == <<"a", "x", "b">>
ParamX1 == <<"x", ":", " ", "1">>
ParamXY == <<"x", ":", " ", "2", ",", " ", "y", ":", " ", "3">>
FooPrefix == <<"Foo">>
GradlePrefix == <<"Foo", " ", ">", " ", "bar">>

IterationDesc(prefix, name, params, index, status) ==
    [kind |-> "iteration", prefix |-> prefix, name |-> name, params |-> params,
     index |-> index, status |-> status]

ConsolePool ==
    { IterationDesc(FooPrefix, Bar, ParamX1, 0, "PASSED"),
      IterationDesc(GradlePrefix, Bar, ParamXY, 1, "FAILED"),
      IterationDesc(FooPrefix, Bar, ParamX1, 12, "SKIPPED"),
      IterationDesc(FooPrefix, Dotted, ParamX1, 0, "PASSED"),
      IterationDesc(FooPrefix, Axb, ParamX1, 3, "FAILED"),
      [kind |-> "noIndex", prefix |-> FooPrefix, name |-> Bar, params |-> ParamX1,
       index |-> 0, status |-> "PASSED"],
      [kind |-> "noise", prefix |-> <<"BUILD", " ", "SUCCESSFUL">>, name |-> <<>>,
       params |-> <<>>, index |-> 0, status |-> ""] }

TestNames == {Bar, Dotted}

\* one line of build output, as Gradle prints it (TestDataFactory.createConsoleOutput:
\* `<class> > <displayName> <STATUS>`), with Windows line ends left by split('\n')
createConsoleOutput(d) ==
    CASE d.kind = "iteration" ->
           d.prefix \o <<" ", ">", " ">> \o d.name \o <<" ", "[">> \o d.params
             \o <<",", " ", "#">> \o Digits(d.index) \o <<"]", " ", d.status, "\r">>
      [] d.kind = "noIndex" ->
           d.prefix \o <<" ", ">", " ">> \o d.name \o <<" ", "[">> \o d.params
             \o <<"]", " ", d.status, "\r">>
      [] OTHER -> d.prefix

ConsoleTexts == SeqsUpTo(ConsolePool, MaxConsoleLines)

ConsoleInit ==
    /\ consoleDesc \in ConsoleTexts
    /\ output = [k \in 1..Len(consoleDesc) |-> createConsoleOutput(consoleDesc[k])]
    /\ testName \in TestNames
    /\ ci = 1
    /\ results = <<>>
    /\ cpc = "scan"

\* loop body: the line matches, a result is pushed
ConsoleMatchLine ==
    /\ cpc = "scan" /\ ci <= Len(output)
    /\ LET m == iterationMatch(output[ci], testName)
       IN  /\ m.matched
           /\ results' = Append(results, ConsoleResult(output[ci], testName, m))
    /\ ci' = ci + 1
    /\ UNCHANGED <<consoleDesc, output, testName, cpc>>

\* loop body: the line does not match
ConsoleSkipLine ==
    /\ cpc = "scan" /\ ci <= Len(output)
    /\ ~iterationMatch(output[ci], testName).matched
    /\ ci' = ci + 1
    /\ UNCHANGED <<consoleDesc, output, testName, results, cpc>>

\* return results
ConsoleReturn ==
    /\ cpc = "scan" /\ ci > Len(output)
    /\ cpc' = "done"
    /\ UNCHANGED <<consoleDesc, output, testName, ci, results>>

ConsoleNext ==
    \/ (ConsoleMatchLine /\ UNCHANGED <<discoveryVars, xmlVars, repeatVars, runVars, execVars, debugVars, watchVars>>)
    \/ (ConsoleSkipLine /\ UNCHANGED <<discoveryVars, xmlVars, repeatVars, runVars, execVars, debugVars, watchVars>>)
    \/ (ConsoleReturn /\ UNCHANGED <<discoveryVars, xmlVars, repeatVars, runVars, execVars, debugVars, watchVars>>)

InitConsole ==
    ConsoleInit /\ DiscoveryIdle /\ XmlIdle /\ RepeatIdle /\ RunIdle /\ ExecIdle
      /\ DebugIdle /\ WatchIdle

SpecConsole == InitConsole /\ [][ConsoleNext]_vars

\* line k of the text shows an iteration of the method searched for
ShowsIteration(k) == consoleDesc[k].kind = "iteration" /\ consoleDesc[k].name = testName

\* the lines among the first n that show an iteration of the method, in order
RECURSIVE IterationLines(_)
IterationLines(n) ==
    IF n = 0 THEN <<>>
    ELSE IF ShowsIteration(n) THEN Append(IterationLines(n - 1), n)
    ELSE IterationLines(n - 1)

\* the lines scanned so far
Scanned == IF cpc = "done" THEN Len(output) ELSE ci - 1

(***************************************************************************)
(* C2: every console result has success = true iff its STATUS is PASSED,   *)
(* duration 0, index = the number after `#`, and errorInfo exactly when    *)
(* success is false.                                                       *)
(***************************************************************************)
C2_ConsoleResultFields ==
    \A k \in 1..Len(results) :
      LET r == results[k]
      IN  /\ r.duration = 0
          /\ (r.errorInfo # <<>>) <=> ~r.success
          /\ \E j \in 1..Scanned :
               /\ Trim(output[j]) = r.output
               /\ ShowsIteration(j)
               /\ r.index = consoleDesc[j].index
               /\ r.success <=> (consoleDesc[j].status = "PASSED")

\* a finished scan that produced a passed, a failed and a skipped iteration
C2_Witness ==
    /\ cpc = "done"
    /\ \E a, b, c \in 1..Len(results) :
         /\ results[a].success /\ results[a].errorInfo = <<>>
         /\ ~results[b].success /\ results[b].index = 1
         /\ ~results[c].success /\ results[c].index = 12

(***************************************************************************)
(* C3: the results are, in line order, exactly one per line that shows     *)
(* `> <methodName> [<parameters>, #<index>] <STATUS>`; every other line,   *)
(* also one whose [..., #N] segment does not parse, gives no result and    *)
(* leaves the results of the other lines alone.                            *)
(***************************************************************************)
C3_OneResultPerIterationLine ==
    LET want == IterationLines(Scanned)
    IN  /\ Len(results) = Len(want)
        /\ \A k \in 1..Len(want) :
             /\ results[k].output = Trim(output[want[k]])
             /\ results[k].index = consoleDesc[want[k]].index

\* a finished scan with a line that does not parse between two that do
C3_Witness ==
    /\ cpc = "done" /\ Len(consoleDesc) = 3
    /\ ShowsIteration(1) /\ consoleDesc[2].kind = "noIndex" /\ ShowsIteration(3)
    /\ Len(results) = 2

(***************************************************************************)
(* TestResultParser.parseXmlReport: the report as XML tokens               *)
(*                                                                         *)
(* A token is one tag, one whole <failure>/<error> element, or one run of  *)
(* whitespace.  Durations are held in milliseconds (seconds * 1000).       *)
(***************************************************************************)
XmlToken(tag, name, classname, time, text) ==
    [tag |-> tag, name |-> name, classname |-> classname, time |-> time, text |-> text]

Plain(tag) == XmlToken(tag, <<>>, <<>>, <<>>, <<>>)

NaN == 0 - 1

\* parseInt in place of parseFloat: the fraction is dropped
parseFloat_IntegerPart(ts) ==
    LET e == SkipDigits(ts, 1)
    IN  IF Len(ts) = 0 \/ ts[1] \notin DigitTokens THEN NaN
        ELSE 1000 * parseInt(SubSeq(ts, 1, e - 1))

\* parseFloat of digits[.digits], in milliseconds; NaN without a leading digit
parseFloat(ts) ==
    LET e    == SkipDigits(ts, 1)
        frac == IF At(ts, e) = "." THEN SubSeq(ts, e + 1, SkipDigits(ts, e + 1) - 1) ELSE <<>>
        f3   == [k \in 1..3 |-> IF k <= Len(frac) THEN frac[k] ELSE "0"]
    IN  IF Len(ts) = 0 \/ ts[1] \notin DigitTokens THEN NaN
        ELSE 1000 * parseInt(SubSeq(ts, 1, e - 1)) + parseInt(f3)

\* /^(.+?)\s*\[([^\]]+),\s*#(\d+)\]$/ on a testcase name
\* group2: the parameters, group3: the index digits
iterationNameMatch(fullName) ==
    LET n == Len(fullName)
        h == SkipDigitsBack(fullName, n - 1)
        c == SkipWsBack(fullName, h - 1)
        R == {r \in 2..(c - 2) : /\ fullName[r] = "["
                                 /\ \A k \in (r + 1)..(c - 1) : fullName[k] # "]"}
        ok == /\ n >= 1 /\ fullName[n] = "]"
              /\ h >= 1 /\ h < n - 1 /\ fullName[h] = "#"
              /\ c >= 1 /\ fullName[c] = ","
              /\ R # {}
        r0 == CHOOSE r \in R : \A o \in R : r <= o
    IN  [matched |-> ok,
         group2  |-> IF ok THEN SubSeq(fullName, r0 + 1, c - 1) ELSE <<>>,
         group3  |-> IF ok THEN SubSeq(fullName, h + 1, n - 1) ELSE <<>>]

\* testcaseRegex.exec from lastIndex `from`: the position of the next
\* <testcase name="[^"]+" ... classname="[^"]+" ... time="[^"]*" ...> tag, 0 if none
RECURSIVE testcaseExec(_, _)
testcaseExec(content, from) ==
    IF from > Len(content) THEN 0
    ELSE IF /\ content[from].tag = "testcase"
            /\ content[from].name # <<>> /\ content[from].classname # <<>>
         THEN from
         ELSE testcaseExec(content, from + 1)

\* the first position >= p of content that is not whitespace
RECURSIVE SkipXmlWs(_, _)
SkipXmlWs(content, p) ==
    IF p <= Len(content) /\ content[p].tag = "ws" THEN SkipXmlWs(content, p + 1) ELSE p

\* xmlContent.match(<testcase[^>]*name="FULLNAME"[^>]*>\s*<KIND[^>]*>([^<]*)</KIND>):
\* the first place of the whole report where a testcase tag with an attribute
\* ending in name="FULLNAME" is followed by a KIND element whose text holds no `<`
elementMatch(content, fullName, kind) ==
    LET P == {p \in 1..Len(content) :
                /\ content[p].tag = "testcase"
                /\ (content[p].name = fullName \/ content[p].classname = fullName)
                /\ LET q == SkipXmlWs(content, p + 1)
                   IN  /\ q <= Len(content)
                       /\ content[q].tag = kind
                       /\ Count(content[q].text, "<") = 0}
        p0 == CHOOSE p \in P : \A o \in P : p <= o
    IN  [matched |-> P # {},
         group1  |-> IF P # {} THEN content[SkipXmlWs(content, p0 + 1)].text ELSE <<>>]

\* the TestIterationResult pushed for the testcase tag at position p
XmlResult(content, p, m) ==
    LET fullName     == content[p].name
        time         == parseFloat(IF content[p].time # <<>> THEN content[p].time ELSE <<"0">>)
        failureMatch == elementMatch(content, fullName, "failure")
        errorMatch   == elementMatch(content, fullName, "error")
    IN  [index       |-> parseInt(m.group3),
         displayName |-> fullName,
         success     |-> ~failureMatch.matched /\ ~errorMatch.matched,
         duration    |-> time,
         errorInfo   |-> IF failureMatch.matched THEN <<[error |-> failureMatch.group1]>>
                         ELSE IF errorMatch.matched THEN <<[error |-> errorMatch.group1]>>
                         ELSE <<>>,
         output      |-> fullName]

\* the catch block rethrowing instead of logging
catchBlock_Rethrow(res) == [results |-> res, thrown |-> TRUE]

\* catch (error) { logger.appendLine(...) } ... return results
catchBlock(res) == [results |-> res, thrown |-> FALSE]

\* console results winning whenever there are any
reconcile_ConsoleFirst(xmlRes, out, name) ==
    IF Len(parseConsoleOutput(out, name)) > 0 THEN parseConsoleOutput(out, name) ELSE xmlRes

\* parseTestResults after parseXmlReport returned xmlRes
reconcile(xmlRes, out, name) ==
    IF Len(xmlRes) > 0 THEN xmlRes ELSE parseConsoleOutput(out, name)

(***************************************************************************)
(* XML reports: each testcase is written from a descriptor                 *)
(***************************************************************************)
MaxTestcases == 3

ClassNameFoo == <<"com", ".", "example", ".", "Foo">>
AssertionFailed == <<"Assertion", " ", "failed">>

\* `<name> [<parameters>, #<index>]` (TestDataFactory.createIterationResults)
IterationName(base, params, index) ==
    base \o <<" ", "[">> \o params \o <<",", " ", "#">> \o Digits(index) \o <<"]">>

TestcaseName(d) ==
    CASE d.kind = "iteration" -> IterationName(d.base, d.params, d.index)
      [] d.kind = "noIndex"   -> d.base \o <<" ", "[">> \o d.params \o <<"]">>
      [] OTHER                -> d.base

\* seconds with three decimals, e.g. 1500 ms -> 1.500
TimeAttribute(ms) ==
    Digits(ms \div 1000) \o <<".">>
      \o <<DigitSeq[((ms \div 100) % 10) + 1], DigitSeq[((ms \div 10) % 10) + 1],
           DigitSeq[(ms % 10) + 1]>>

TestcaseDesc(kind, base, params, index, outcome, hasTime, ms) ==
    [kind |-> kind, base |-> base, params |-> params, index |-> index,
     outcome |-> outcome, hasTime |-> hasTime, ms |-> ms]

XmlPool ==
    { TestcaseDesc("iteration", Bar, ParamX1, 0, "pass", TRUE, 1),
      TestcaseDesc("iteration", Bar, ParamX1, 0, "failure", TRUE, 2),
      TestcaseDesc("iteration", Bar, ParamXY, 1, "error", TRUE, 1500),
      TestcaseDesc("iteration", <<"baz">>, ParamX1, 12, "pass", FALSE, 0),
      TestcaseDesc("summary", Bar, <<>>, 0, "failure", TRUE, 30),
      TestcaseDesc("noIndex", Bar, ParamX1, 0, "pass", TRUE, 4) }

\* one testcase as TestDataFactory.createXmlReport writes it:
\* `<testcase name=".." classname=".." time="..">[<failure ..>..</failure>]</testcase>`
TestcaseTokens(d) ==
    <<XmlToken("testcase", TestcaseName(d), ClassNameFoo,
               IF d.hasTime THEN TimeAttribute(d.ms) ELSE <<>>, <<>>)>>
      \o (IF d.outcome = "pass" THEN <<>>
          ELSE <<XmlToken(d.outcome, <<>>, <<>>, <<>>, AssertionFailed)>>)
      \o <<Plain("/testcase"), Plain("ws")>>

RECURSIVE TestcasesTokens(_)
TestcasesTokens(ds) ==
    IF Len(ds) = 0 THEN <<>> ELSE TestcaseTokens(Head(ds)) \o TestcasesTokens(Tail(ds))

\* TestDataFactory.createXmlReport
createXmlReport(ds) ==
    <<Plain("?xml"), Plain("ws"), Plain("testsuite"), Plain("ws")>>
      \o TestcasesTokens(ds) \o <<Plain("/testsuite")>>

\* the console text handed to parseTestResults along with the report
XmlConsolePool ==
    { IterationDesc(FooPrefix, Bar, ParamX1, 0, "FAILED"),
      IterationDesc(GradlePrefix, Bar, ParamXY, 1, "PASSED") }

(***************************************************************************)
(* parseTestResults, with parseXmlReport step by step                      *)
(***************************************************************************)
XmlInit ==
    /\ fileState \in {"absent", "unreadable", "ok"}
    /\ xmlDesc \in IF fileState = "ok" THEN SeqsUpTo(XmlPool, MaxTestcases) ELSE {<<>>}
    /\ xmlContent = <<>>
    /\ lastIndex = 0
    /\ xmlResults = <<>>
    /\ thrown = FALSE
    /\ returned = <<>>
    /\ xpc = "exists"
    /\ consoleDesc \in SeqsUpTo(XmlConsolePool, 1)
    /\ output = [k \in 1..Len(consoleDesc) |-> createConsoleOutput(consoleDesc[k])]
    /\ testName = Bar
    /\ ci = 0 /\ results = <<>> /\ cpc = "idle"

\* if (!fs.existsSync(xmlPath)) return results
XmlNotFound ==
    /\ xpc = "exists" /\ fileState = "absent"
    /\ xpc' = "xmlDone"
    /\ UNCHANGED <<fileState, xmlDesc, xmlContent, lastIndex, xmlResults, thrown, returned>>

\* fs.readFileSync succeeds
XmlRead ==
    /\ xpc = "exists" /\ fileState = "ok"
    /\ xmlContent' = createXmlReport(xmlDesc)
    /\ lastIndex' = 1
    /\ xpc' = "scan"
    /\ UNCHANGED <<fileState, xmlDesc, xmlResults, thrown, returned>>

\* fs.readFileSync throws: the catch block runs, then `return results`
XmlReadFails ==
    /\ xpc = "exists" /\ fileState = "unreadable"
    /\ xmlResults' = catchBlock(xmlResults).results
    /\ thrown' = catchBlock(xmlResults).thrown
    /\ xpc' = "xmlDone"
    /\ UNCHANGED <<fileState, xmlDesc, xmlContent, lastIndex, returned>>

\* one turn of the while loop: a testcase whose name is an iteration
XmlIteration ==
    /\ xpc = "scan"
    /\ LET p == testcaseExec(xmlContent, lastIndex)
       IN  /\ p # 0
           /\ iterationNameMatch(xmlContent[p].name).matched
           /\ xmlResults' = Append(xmlResults,
                  XmlResult(xmlContent, p, iterationNameMatch(xmlContent[p].name)))
           /\ lastIndex' = p + 1
    /\ UNCHANGED <<fileState, xmlDesc, xmlContent, thrown, returned, xpc>>

\* one turn of the while loop: a testcase whose name is no iteration
XmlOtherTestcase ==
    /\ xpc = "scan"
    /\ LET p == testcaseExec(xmlContent, lastIndex)
       IN  /\ p # 0
           /\ ~iterationNameMatch(xmlContent[p].name).matched
           /\ lastIndex' = p + 1
    /\ UNCHANGED <<fileState, xmlDesc, xmlContent, xmlResults, thrown, returned, xpc>>

\* exec returns null: the loop ends, `return results`
XmlScanEnd ==
    /\ xpc = "scan"
    /\ testcaseExec(xmlContent, lastIndex) = 0
    /\ xpc' = "xmlDone"
    /\ UNCHANGED <<fileState, xmlDesc, xmlContent, lastIndex, xmlResults, thrown, returned>>

\* parseTestResults: xmlResults if there are any, else parseConsoleOutput
ParseTestResultsReturn ==
    /\ xpc = "xmlDone" /\ ~thrown
    /\ returned' = reconcile(xmlResults, output, testName)
    /\ xpc' = "done"
    /\ UNCHANGED <<fileState, xmlDesc, xmlContent, lastIndex, xmlResults, thrown>>

XmlNext ==
    \/ (XmlNotFound /\ UNCHANGED <<discoveryVars, consoleVars, repeatVars, runVars, execVars, debugVars, watchVars>>)
    \/ (XmlRead /\ UNCHANGED <<discoveryVars, consoleVars, repeatVars, runVars, execVars, debugVars, watchVars>>)
    \/ (XmlReadFails /\ UNCHANGED <<discoveryVars, consoleVars, repeatVars, runVars, execVars, debugVars, watchVars>>)
    \/ (XmlIteration /\ UNCHANGED <<discoveryVars, consoleVars, repeatVars, runVars, execVars, debugVars, watchVars>>)
    \/ (XmlOtherTestcase /\ UNCHANGED <<discoveryVars, consoleVars, repeatVars, runVars, execVars, debugVars, watchVars>>)
    \/ (XmlScanEnd /\ UNCHANGED <<discoveryVars, consoleVars, repeatVars, runVars, execVars, debugVars, watchVars>>)
    \/ (ParseTestResultsReturn /\ UNCHANGED <<discoveryVars, consoleVars, repeatVars, runVars, execVars, debugVars, watchVars>>)

InitXml ==
    XmlInit /\ DiscoveryIdle /\ RepeatIdle /\ RunIdle /\ ExecIdle
      /\ DebugIdle /\ WatchIdle

SpecXml == InitXml /\ [][XmlNext]_vars

\* the testcases of the report that are iterations, in document order
RECURSIVE IterationCases(_)
IterationCases(ds) ==
    IF Len(ds) = 0 THEN <<>>
    ELSE IF ds[Len(ds)].kind = "iteration"
         THEN Append(IterationCases(SubSeq(ds, 1, Len(ds) - 1)), ds[Len(ds)])
         ELSE IterationCases(SubSeq(ds, 1, Len(ds) - 1))

XmlScanOver == xpc \in {"xmlDone", "done"}

(***************************************************************************)
(* C1: parseTestResults returns exactly the XML-derived results whenever   *)
(* the report holds one or more iterations, whatever the console text      *)
(* shows, and parseConsoleOutput(consoleText, testName) only when the XML  *)
(* path yields none.                                                       *)
(***************************************************************************)
C1_XmlResultsPreferred ==
    xpc = "done" =>
      IF fileState = "ok" /\ Len(IterationCases(xmlDesc)) > 0
      THEN /\ returned = xmlResults
           /\ Len(returned) = Len(IterationCases(xmlDesc))
           /\ \A k \in 1..Len(returned) :
                /\ returned[k].output = TestcaseName(IterationCases(xmlDesc)[k])
                /\ (\A d \in 1..Len(xmlDesc) :
                       TestcaseName(xmlDesc[d]) = returned[k].output
                         => xmlDesc[d].outcome = "pass")
                     => returned[k].success
      ELSE returned = parseConsoleOutput(output, testName)

\* the report shows bar [x: 1, #0] without a failure, the console shows it FAILED
C1_Witness ==
    /\ xpc = "done" /\ fileState = "ok"
    /\ xmlDesc = <<TestcaseDesc("iteration", Bar, ParamX1, 0, "pass", TRUE, 1)>>
    /\ consoleDesc = <<IterationDesc(FooPrefix, Bar, ParamX1, 0, "FAILED")>>
    /\ Len(returned) = 1 /\ returned[1].success /\ returned[1].duration = 1

(***************************************************************************)
(* C4: each iteration testcase gets success = false and the element's text *)
(* as errorInfo when it holds a nested <failure> or <error>, success =     *)
(* true and no errorInfo otherwise; one testcase's failure never changes   *)
(* the success of another.                                                 *)
(***************************************************************************)
C4_FailureBelongsToItsTestcase ==
    (XmlScanOver /\ fileState = "ok") =>
      \A k \in 1..Len(xmlResults) :
        LET d == IterationCases(xmlDesc)[k]
        IN  /\ xmlResults[k].success <=> (d.outcome = "pass")
            /\ xmlResults[k].errorInfo =
                 IF d.outcome = "pass" THEN <<>> ELSE <<[error |-> AssertionFailed]>>

(***************************************************************************)
(* C5: parseXmlReport never raises; an absent or unreadable report gives   *)
(* an empty sequence, and parseTestResults then returns the console        *)
(* results.                                                                *)
(***************************************************************************)
C5_XmlFaultsContained ==
    /\ ~thrown
    /\ (XmlScanOver /\ fileState # "ok") => xmlResults = <<>>
    /\ (xpc = "done" /\ fileState # "ok") =>
          /\ Len(returned) = Len(consoleDesc)
          /\ \A k \in 1..Len(returned) :
               /\ returned[k].index = consoleDesc[k].index
               /\ returned[k].duration = 0

\* the read failed and the console results were returned
C5_Witness ==
    /\ xpc = "done" /\ fileState = "unreadable" /\ Len(returned) = 1

(***************************************************************************)
(* C6: parseXmlReport yields one result, in document order, for each       *)
(* testcase named `<base> [<parameters>, #<index>]`, with the index of     *)
(* the name and the parsed time attribute as duration, and none for a      *)
(* testcase with another name.                                             *)
(***************************************************************************)
C6_OneResultPerIterationTestcase ==
    (XmlScanOver /\ fileState = "ok") =>
      LET want == IterationCases(xmlDesc)
      IN  /\ Len(xmlResults) = Len(want)
          /\ \A k \in 1..Len(want) :
               /\ xmlResults[k].displayName = TestcaseName(want[k])
               /\ xmlResults[k].index = want[k].index
               /\ xmlResults[k].duration = IF want[k].hasTime THEN want[k].ms ELSE 0

\* a finished scan of a report with a summary between two iterations
C6_Witness ==
    /\ xpc = "xmlDone" /\ fileState = "ok" /\ Len(xmlDesc) = 3
    /\ xmlDesc[1].kind = "iteration" /\ xmlDesc[1].ms = 1500
    /\ xmlDesc[2].kind = "summary"
    /\ xmlDesc[3].kind = "iteration" /\ xmlDesc[3].index = 12
    /\ Len(xmlResults) = 2

(***************************************************************************)
(* Reference structure of a source text, read off the braces alone         *)
(***************************************************************************)
\* sum of countBraceDelta over lines a..b, each line counted once
RECURSIVE SumDelta(_, _, _)
SumDelta(ls, a, b) ==
    IF a > b THEN 0 ELSE countBraceDelta(ls[a]) + SumDelta(ls, a + 1, b)

\* the body of the class declared at line d is closed by line k: its opening
\* brace has been seen and the balance from line d on is back to 0 or below
RECURSIVE ClosedScan(_, _, _, _, _)
ClosedScan(ls, j, k, bal, seen) ==
    IF j > k THEN FALSE
    ELSE LET b == bal + countBraceDelta(ls[j])
             s == seen \/ countBraceDelta(ls[j]) > 0
         IN  IF s /\ b <= 0 THEN TRUE ELSE ClosedScan(ls, j + 1, k, b, s)

BodyClosedBy(ls, d, k) == ClosedScan(ls, d, k, 0, FALSE)

\* the line that closes the body of the class declared at line d (Len+1 if none)
CloseLine(ls, d) ==
    IF BodyClosedBy(ls, d, Len(ls))
    THEN CHOOSE j \in d..Len(ls) : BodyClosedBy(ls, d, j) /\ ~BodyClosedBy(ls, d, j - 1)
    ELSE Len(ls) + 1

IsClassLine(ls, k) == CLASS_REGEX(Trim(ls[k])).matched

\* Owner(ls, k): the declaration line of the top-level class whose declaration
\* or body holds line k, 0 if line k is outside every class
RECURSIVE OwnerFrom(_, _, _, _)
OwnerFrom(ls, k, from, open) ==
    LET here == IF open # 0 /\ from <= CloseLine(ls, open) THEN open
                ELSE IF IsClassLine(ls, from) THEN from ELSE 0
    IN  IF from = k THEN here ELSE OwnerFrom(ls, k, from + 1, here)

Owner(ls, k) == OwnerFrom(ls, k, 1, 0)

TopLevelDeclarations(ls) == {k \in 1..Len(ls) : Owner(ls, k) = k}

\* line k lies in the body of a class declared inside another class's body
InNestedBody(ls, k) ==
    \E n \in 1..(k - 1) : /\ IsClassLine(ls, n)
                          /\ Owner(ls, n) \notin {0, n}
                          /\ k <= CloseLine(ls, n)

\* the lines recorded as method headings of class number c
MethodLines(c) == {testClasses[c].methods[m].line + 1 : m \in 1..Len(testClasses[c].methods)}

RecordedNames ==
    UNION {{testClasses[c].methods[m].name : m \in 1..Len(testClasses[c].methods)} :
              c \in 1..Len(testClasses)}

(***************************************************************************)
(* C7: at every point of the scan and in the result, no method named       *)
(* setup, setupSpec, cleanup or cleanupSpec is recorded in any class.      *)
(***************************************************************************)
ReservedNames == {<<"setup">>, <<"setupSpec">>, <<"cleanup">>, <<"cleanupSpec">>}

C7_NoLifecycleMethodRecorded == RecordedNames \cap ReservedNames = {}

\* a finished scan of a class that holds a quoted and a label-confirmed bare
\* lifecycle heading next to a recorded feature method
C7_Witness ==
    /\ dpc = "done"
    /\ Len(lines) >= 1 /\ lines[1] = ClassA
    /\ \E k \in 2..Len(lines) : lines[k] = DefSetupQ /\ Owner(lines, k) = 1
    /\ \E k \in 2..(Len(lines) - 1) :
          lines[k] = DefCleanup /\ lines[k + 1] = ExpectLabel /\ Owner(lines, k) = 1
    /\ Len(testClasses) = 1 /\ Len(testClasses[1].methods) >= 1

(***************************************************************************)
(* C8: the scanner leaves the inside-class state on the line where the     *)
(* class body closes (opening brace seen, balance summed from the          *)
(* declaration line on back to 0 or below), so a heading on a later line   *)
(* outside every class body is not recorded.                               *)
(***************************************************************************)
C8_InClassClearedWhereBodyCloses ==
    /\ (dpc = "scan" /\ inClass /\ currentClass # 0)
          => ~BodyClosedBy(lines, testClasses[currentClass].line + 1, i - 1)
    /\ \A c \in 1..Len(testClasses) : \A k \in MethodLines(c) :
          ~BodyClosedBy(lines, testClasses[c].line + 1, k - 1)

(***************************************************************************)
(* C9: the recorded classes are exactly the top-level class declarations,  *)
(* in file order, and every recorded method belongs to the class whose     *)
(* body holds its heading, also with several classes in one file.          *)
(***************************************************************************)
C9_OneClassPerTopLevelDeclaration ==
    dpc = "done" =>
      /\ {testClasses[c].line + 1 : c \in 1..Len(testClasses)} = TopLevelDeclarations(lines)
      /\ \A c, d \in 1..Len(testClasses) : c < d => testClasses[c].line < testClasses[d].line
      /\ \A c \in 1..Len(testClasses) : \A k \in MethodLines(c) :
            Owner(lines, k) = testClasses[c].line + 1

(***************************************************************************)
(* C10: no heading inside the body of a nested class is recorded, up to    *)
(* the nested class's own closing brace, and the outer class's headings    *)
(* outside nested bodies are still recorded.                               *)
(***************************************************************************)
\* every class declaration of the text carries its opening brace
BracesOnDeclarations(ls) ==
    \A k \in 1..Len(ls) : IsClassLine(ls, k) => countBraceDelta(ls[k]) > 0

C10_OuterMethodsStillRecorded ==
    (dpc = "done" /\ BracesOnDeclarations(lines)) =>
      \A c \in 1..Len(testClasses) : \A k \in 1..Len(lines) :
        ( /\ Owner(lines, k) = testClasses[c].line + 1
          /\ ~IsClassLine(lines, k) /\ ~InNestedBody(lines, k)
          /\ METHOD_HEADER_REGEX(Trim(lines[k])).matched
          /\ AcceptsMethod(lines, k).accept )
        => k \in MethodLines(c)

\* stated on the texts whose class declarations carry their opening brace
C10_NestedClassMethodsNotRecorded ==
    /\ BracesOnDeclarations(lines) =>
          \A c \in 1..Len(testClasses) : \A k \in MethodLines(c) : ~InNestedBody(lines, k)
    /\ C10_OuterMethodsStillRecorded

(***************************************************************************)
(* Method headings: texts of one class holding headings, block labels,     *)
(* braces, comments and blank lines                                        *)
(***************************************************************************)
MaxBody == 3
MaxPad  == 50

\* the heading `  def "<content>"()`, with ` {` when brace
QuotedHeading(content, brace) ==
    <<" ", " ", "def", " ", "\"">> \o content \o <<"\"", "(", ")">>
        \o (IF brace THEN <<" ", "{">> ELSE <<>>)

\* the heading `  def <id>()`, with ` {` when brace
BareHeading(id, brace) ==
    <<" ", " ", "def", " ", id, "(", ")">> \o (IF brace THEN <<" ", "{">> ELSE <<>>)

AddsNumbers    == <<"adds", " ", "numbers">>
ItsOk          == <<"it", "'", "s", " ", "ok">>
QuotedContents == {AddsNumbers, ItsOk}
BareNames      == {"helper"}

Comment   == <<" ", " ", "//", " ", "note">>
Blank     == <<>>
Statement == <<" ", " ", "x">>

HeadingPool ==
    {QuotedHeading(c, TRUE) : c \in QuotedContents}
      \cup {QuotedHeading(AddsNumbers, FALSE)}
      \cup {BareHeading(n, TRUE) : n \in BareNames}
      \cup {ExpectLabel, CloseBrace, OpenBrace, Comment, Blank, Statement}

\* n copies of line p
Pad(n, p) == [k \in 1..n |-> p]

\* a heading, then n comment or blank lines, then a brace line and/or a label
PaddedTexts ==
    {<<ClassA, h>> \o Pad(n, p) \o t :
        h \in {BareHeading("helper", TRUE), QuotedHeading(AddsNumbers, FALSE)},
        n \in 0..MaxPad,
        p \in {Comment, Blank},
        t \in {<<OpenBrace, ExpectLabel>>, <<ExpectLabel>>}}

HeadingTexts ==
    {<<ClassA>> \o b : b \in SeqsUpTo(HeadingPool, MaxBody)} \cup PaddedTexts

InitHeadings ==
    DiscoveryStart(HeadingTexts) /\ ConsoleIdle /\ XmlIdle /\ RepeatIdle /\ RunIdle /\ ExecIdle
      /\ DebugIdle /\ WatchIdle

SpecHeadings == InitHeadings /\ [][DiscoveryNext]_vars

\* line k lies in the body of the class declared on line 1 (the texts of
\* HeadingTexts hold no other class declaration)
InTopLevelBody(ls, k) ==
    /\ k > 1 /\ IsClassLine(ls, 1)
    /\ ~BodyClosedBy(ls, 1, k - 1)

\* the names of the methods recorded with their heading on line k
NamesAt(k) ==
    UNION {{testClasses[c].methods[m].name :
               m \in {x \in 1..Len(testClasses[c].methods) :
                         testClasses[c].methods[x].line = k - 1}} :
              c \in 1..Len(testClasses)}

(***************************************************************************)
(* C11: every heading `def "<text>"() {` in the body of a top-level class  *)
(* is recorded as a method named exactly <text>, whatever the non-empty    *)
(* text, and a bare heading that is recorded is named exactly by its       *)
(* identifier.                                                             *)
(***************************************************************************)
C11_HeadingNamesRecovered ==
    dpc = "done" =>
      \A k \in 1..Len(lines) :
        InTopLevelBody(lines, k) =>
          /\ \A c \in QuotedContents :
                lines[k] = QuotedHeading(c, TRUE) => NamesAt(k) = {c}
          /\ \A n \in BareNames : \A b \in BOOLEAN :
                lines[k] = BareHeading(n, b) => NamesAt(k) \subseteq {<<n>>}

(***************************************************************************)
(* C12: a bare-identifier heading (its brace on the heading line) is       *)
(* recorded if and only if a block label stands within the 50 lines that   *)
(* start with the heading, i.e. among the 49 lines after it, with no line  *)
(* that is exactly `}` before the label; a quoted heading is recorded      *)
(* without any label.                                                      *)
(***************************************************************************)
LabelWithinFifty(ls, k) ==
    \E j \in (k + 1)..Min(Len(ls), k + 49) :
        /\ ls[j] = ExpectLabel
        /\ \A m \in (k + 1)..(j - 1) : ls[m] # CloseBrace

\* the quoted texts the heading pattern admits: no quote character inside
CandidateContents == {c \in QuotedContents : \A p \in 1..Len(c) : ~IsQuote(c[p])}

C12_BareNameNeedsBlockLabel ==
    dpc = "done" =>
      \A k \in 1..Len(lines) :
        InTopLevelBody(lines, k) =>
          /\ \A n \in BareNames :
                lines[k] = BareHeading(n, TRUE)
                  => (NamesAt(k) # {} <=> LabelWithinFifty(lines, k))
          /\ \A c \in CandidateContents :
                lines[k] = QuotedHeading(c, TRUE) => NamesAt(k) # {}

\* a bare heading confirmed by a label on the last line of its window: the
\* 49th line after the heading
C12_Witness ==
    /\ dpc = "done"
    /\ Len(lines) = 51
    /\ lines[2] = BareHeading("helper", TRUE)
    /\ lines[51] = ExpectLabel
    /\ \A m \in 3..50 : lines[m] = Blank
    /\ NamesAt(2) = {<<"helper">>}

(***************************************************************************)
(* C13: a heading is recorded only if an opening brace stands on the       *)
(* heading line or on one of the next 4 non-comment lines; comment lines   *)
(* between the heading and the brace do not count, so a heading followed   *)
(* by comment lines only and then by the brace line is recorded.           *)
(***************************************************************************)
BraceWithinFour(ls, k) ==
    \E j \in (k + 1)..Len(ls) :
        /\ StartsWith(Trim(ls[j]), "{")
        /\ Cardinality({m \in (k + 1)..j : ls[m] # Comment}) <= 4

OnlyCommentsBeforeBrace(ls, k) ==
    \E j \in (k + 1)..Len(ls) :
        /\ ls[j] = OpenBrace
        /\ \A m \in (k + 1)..(j - 1) : ls[m] = Comment

C13_BraceWithinFourNonCommentLines ==
    dpc = "done" =>
      \A k \in 1..Len(lines) :
        InTopLevelBody(lines, k) =>
          /\ NamesAt(k) # {} => (Count(lines[k], "{") > 0 \/ BraceWithinFour(lines, k))
          /\ \A c \in CandidateContents :
                (lines[k] = QuotedHeading(c, FALSE) /\ OnlyCommentsBeforeBrace(lines, k))
                  => NamesAt(k) # {}

(***************************************************************************)
(* parseTestsInFile, the copy that records isAbstract (no nesting counter, *)
(* no data iterations)                                                     *)
(***************************************************************************)
\* the loop of this copy's hasOpeningBraceOnOrNextLine: no look at the
\* heading line itself
hasOpeningBraceOnNextLine(ls, startIndex) ==
    BraceLoop(ls, startIndex + 1, Min(Len(ls), startIndex + BRACE_LOOKAHEAD - 1))

\* trimmedLine.startsWith('abstract') taken on the untrimmed line
isAbstract_Untrimmed(line) == StartsWith(line, "abstract")

\* trimmedLine.startsWith('abstract'); on a line CLASS_REGEX matches the
\* first token is `abstract` or `class`
isAbstract(line) == StartsWith(Trim(line), "abstract")

\* "Update class brace balance": the tail of the loop body
AbstractUpdateBalance(line, tc, cur, inC, bal, seen) ==
    LET delta == countBraceDelta(line)
        seen2 == seen \/ delta > 0
        bal2  == bal + delta
    IN  /\ testClasses' = tc
        /\ classNestingLevel' = classNestingLevel
        /\ IF ~inC
           THEN /\ currentClass' = cur /\ inClass' = inC /\ classBraceBalance' = bal
                /\ seenClassOpeningBrace' = seen
           ELSE IF seen2 /\ bal2 <= 0
           THEN /\ currentClass' = 0 /\ inClass' = FALSE /\ classBraceBalance' = 0
                /\ seenClassOpeningBrace' = FALSE
           ELSE /\ currentClass' = cur /\ inClass' = TRUE /\ classBraceBalance' = bal2
                /\ seenClassOpeningBrace' = seen2

\* loop body, first branch: the line is a class declaration
AbstractClassLine ==
    /\ dpc = "scan" /\ i <= Len(lines)
    /\ LET line  == lines[i]
           m     == CLASS_REGEX(Trim(line))
           delta == countBraceDelta(line)
       IN  /\ m.matched
           /\ AbstractUpdateBalance(line,
                  Append(testClasses, [name |-> m.name, line |-> i - 1, methods |-> <<>>,
                                       isAbstract |-> isAbstract(line)]),
                  Len(testClasses) + 1, TRUE, classBraceBalance + delta,
                  seenClassOpeningBrace \/ delta > 0)
    /\ i' = i + 1
    /\ UNCHANGED <<lines, dpc, tableDesc>>

\* the acceptance policy of a method heading at line k
AbstractAcceptsMethod(ls, k) ==
    LET m       == METHOD_HEADER_REGEX(Trim(ls[k]))
        rawName == Trim(IF m.group2 # <<>> THEN m.group2 ELSE m.group3)
        shouldAccept == m.group2 # <<>> \/ lineHasSpockBlockLabelNearby(ls, k)
        braceOk      == m.group4 \/ hasOpeningBraceOnNextLine(ls, k)
    IN  [rawName |-> rawName,
         accept  |-> /\ rawName # <<>>
                     /\ rawName \notin LIFECYCLE_METHODS
                     /\ shouldAccept /\ braceOk]

\* loop body, second branch: a method heading inside a class
AbstractMethodLine ==
    /\ dpc = "scan" /\ i <= Len(lines)
    /\ LET line == lines[i]
           a    == AbstractAcceptsMethod(lines, i)
       IN  /\ ~CLASS_REGEX(Trim(line)).matched
           /\ inClass /\ currentClass # 0
           /\ METHOD_HEADER_REGEX(Trim(line)).matched
           /\ AbstractUpdateBalance(line,
                  IF a.accept
                  THEN [testClasses EXCEPT ![currentClass].methods =
                            Append(@, [name |-> a.rawName, line |-> i - 1])]
                  ELSE testClasses,
                  currentClass, inClass, classBraceBalance, seenClassOpeningBrace)
    /\ i' = i + 1
    /\ UNCHANGED <<lines, dpc, tableDesc>>

\* loop body, neither branch taken
AbstractOtherLine ==
    /\ dpc = "scan" /\ i <= Len(lines)
    /\ LET line == lines[i]
       IN  /\ ~CLASS_REGEX(Trim(line)).matched
           /\ ~(inClass /\ currentClass # 0 /\ METHOD_HEADER_REGEX(Trim(line)).matched)
           /\ AbstractUpdateBalance(line, testClasses, currentClass, inClass,
                  classBraceBalance, seenClassOpeningBrace)
    /\ i' = i + 1
    /\ UNCHANGED <<lines, dpc, tableDesc>>

AbstractNext ==
    \/ (AbstractClassLine /\ UNCHANGED <<consoleVars, xmlVars, repeatVars, runVars, execVars, debugVars, watchVars>>)
    \/ (AbstractMethodLine /\ UNCHANGED <<consoleVars, xmlVars, repeatVars, runVars, execVars, debugVars, watchVars>>)
    \/ (AbstractOtherLine /\ UNCHANGED <<consoleVars, xmlVars, repeatVars, runVars, execVars, debugVars, watchVars>>)
    \/ (DiscoveryReturn /\ UNCHANGED <<consoleVars, xmlVars, repeatVars, runVars, execVars, debugVars, watchVars>>)

\* the declaration `[abstract ]class <name> extends Specification {`
ClassDecl(abstract, name) ==
    (IF abstract THEN <<"abstract", " ">> ELSE <<>>)
        \o <<"class", " ", name, " ", "extends", " ", "Specification", " ", "{">>

Indents == {<<>>, <<" ", " ">>}

AbstractPool ==
    {QuotedHeading(AddsNumbers, TRUE), BareHeading("helper", TRUE), DefCleanup,
     ExpectLabel, CloseBrace}

\* one class, abstract or not, and then possibly a second one
AbstractTexts ==
    {<<ind \o ClassDecl(a, "A")>> \o b :
        ind \in Indents, a \in BOOLEAN, b \in SeqsUpTo(AbstractPool, MaxBody)}
      \cup {<<ClassDecl(a, "A")>> \o b \o <<CloseBrace, ClassDecl(a2, "B")>> \o b2 :
              a \in BOOLEAN, a2 \in BOOLEAN,
              b \in SeqsUpTo({QuotedHeading(AddsNumbers, TRUE), CloseBrace}, 2),
              b2 \in SeqsUpTo({QuotedHeading(AddsNumbers, TRUE), CloseBrace}, 2)}

InitAbstract ==
    DiscoveryStart(AbstractTexts) /\ ConsoleIdle /\ XmlIdle /\ RepeatIdle /\ RunIdle /\ ExecIdle
      /\ DebugIdle /\ WatchIdle

SpecAbstract == InitAbstract /\ [][AbstractNext]_vars

(***************************************************************************)
(* C14: a class declared with a leading `abstract` is recorded with        *)
(* isAbstract = TRUE, one declared without it with isAbstract = FALSE, and *)
(* in both cases the headings of its body are recorded by the same rules:  *)
(* quoted headings always, bare headings when label-confirmed, lifecycle   *)
(* headings never.                                                         *)
(***************************************************************************)
DeclaredAbstract(l) ==
    \E ind \in Indents : \E n \in {"A", "B"} : l = ind \o ClassDecl(TRUE, n)

\* line k lies in the body of the class declared on line d
InBodyOf(ls, d, k) ==
    /\ d < k
    /\ ~BodyClosedBy(ls, d, k - 1)
    /\ \A m \in (d + 1)..k : ~IsClassLine(ls, m)

\* the rule for a heading line, whatever the class around it
ExpectedMethodLine(ls, k) ==
    \/ ls[k] = QuotedHeading(AddsNumbers, TRUE)
    \/ ls[k] = BareHeading("helper", TRUE) /\ LabelWithinFifty(ls, k)

C14_AbstractClassesRecorded ==
    dpc = "done" =>
      /\ {testClasses[c].line + 1 : c \in 1..Len(testClasses)}
            = {k \in 1..Len(lines) : IsClassLine(lines, k)}
      /\ \A c \in 1..Len(testClasses) :
            LET d == testClasses[c].line + 1
            IN  /\ testClasses[c].isAbstract = DeclaredAbstract(lines[d])
                /\ \A k \in 1..Len(lines) :
                      InBodyOf(lines, d, k)
                        => (k \in MethodLines(c) <=> ExpectedMethodLine(lines, k))

\* an indented abstract class recorded with a quoted and a label-confirmed
\* bare method, its lifecycle heading left out
C14_Witness ==
    /\ dpc = "done"
    /\ Len(lines) = 4
    /\ lines[1] = <<" ", " ">> \o ClassDecl(TRUE, "A")
    /\ lines[2] = DefCleanup
    /\ lines[3] = BareHeading("helper", TRUE)
    /\ lines[4] = ExpectLabel
    /\ Len(testClasses) = 1
    /\ testClasses[1].isAbstract
    /\ MethodLines(1) = {3}

(***************************************************************************)
(* Data tables: texts of one class with one feature method whose where     *)
(* block holds a table written from a descriptor                           *)
(***************************************************************************)
MaxCols == 3
MaxRows == 2

\* a cell: its text and the value the coercion rules give for it
Cell(text, value) == [text |-> text, value |-> value]

CellList ==
    << Cell(<<"1">>, Value("number", <<"1">>)),
       Cell(<<"2">>, Value("number", <<"2">>)),
       Cell(<<"-", "3">>, Value("number", <<"-", "3">>)),
       Cell(<<"1", ".", "5", "0">>, Value("number", <<"1", ".", "5">>)),
       Cell(<<"\"", "x", "\"">>, Value("string", <<"x">>)),
       Cell(<<"true">>, Value("boolean", <<"true">>)),
       Cell(<<"null">>, Value("null", <<"null">>)),
       Cell(<<"foo">>, Value("string", <<"foo">>)),
       Cell(<<"'", "y", "|", "z", "'">>, Value("string", <<"y", "|", "z">>)) >>

\* the data row of n cells that starts at cell number s of CellList
Row(n, s) == [j \in 1..n |-> CellList[((s + j - 2) % Len(CellList)) + 1]]

\* the rows of a table of m data rows: row s of CellList and the rows after it
RowNumbers(s, m) == [k \in 1..m |-> ((s + k - 2) % Len(CellList)) + 1]

ColumnNames == <<"a", "b", "c", "d", "e">>

\* header rows of n cells: column j holds its name or the placeholder `_`,
\* at least one column holds a name
Headers(n) ==
    {h \in [1..n -> {"name", "_"}] : \E j \in 1..n : h[j] = "name"}

HeaderCell(h, j) == IF h[j] = "_" THEN <<"_">> ELSE <<ColumnNames[j]>>

\* the separator written between column j and column j + 1 of n columns
SeparatorStyles == {"|", ";", "||", ";;"}

Separator(style, j, n) ==
    IF style = "|" THEN <<"|">>
    ELSE IF style = ";" THEN <<";">>
    ELSE IF style = "||" THEN (IF j = n - 1 THEN <<"|", "|">> ELSE <<"|">>)
    ELSE (IF j = n - 1 THEN <<";", ";">> ELSE <<";">>)

\* the cells texts[j..n] joined by the separators of the style
RECURSIVE JoinCells(_, _, _)
JoinCells(texts, style, j) ==
    IF j = Len(texts) THEN texts[j]
    ELSE texts[j] \o <<" ">> \o Separator(style, j, Len(texts)) \o <<" ">>
           \o JoinCells(texts, style, j + 1)

TableLine(texts, style) == <<" ", " ", " ", " ">> \o JoinCells(texts, style, 1)

TableDescs ==
    {[kind |-> "table", header |-> h, rows |-> r, style |-> st] :
        h  \in UNION {Headers(n) : n \in 2..MaxCols},
        r  \in {RowNumbers(s, m) : s \in 1..Len(CellList), m \in 0..MaxRows},
        st \in SeparatorStyles}

HeaderTexts(d) == [j \in 1..Len(d.header) |-> HeaderCell(d.header, j)]

RowTexts(d, k) == [j \in 1..Len(d.header) |-> Row(Len(d.header), d.rows[k])[j].text]

WhereLabel == <<" ", " ", " ", " ", "where", ":">>

\* the file text of a table descriptor
TableText(d) ==
    <<ClassA, QuotedHeading(AddsNumbers, TRUE), ExpectLabel, Statement, WhereLabel,
      TableLine(HeaderTexts(d), d.style)>>
      \o [k \in 1..Len(d.rows) |-> TableLine(RowTexts(d, k), d.style)]
      \o <<CloseBrace, <<"}">> >>

\* the locals of parseTestsInFile before the loop, on the text of a descriptor
TableStart(descs) ==
    /\ tableDesc \in descs
    /\ lines = TableText(tableDesc)
    /\ i = 1
    /\ testClasses = <<>>
    /\ currentClass = 0
    /\ inClass = FALSE
    /\ classBraceBalance = 0
    /\ seenClassOpeningBrace = FALSE
    /\ classNestingLevel = 0
    /\ dpc = "scan"

InitTable ==
    TableStart(TableDescs) /\ ConsoleIdle /\ XmlIdle /\ RepeatIdle /\ RunIdle /\ ExecIdle
      /\ DebugIdle /\ WatchIdle

SpecTable == InitTable /\ [][DiscoveryNext]_vars

\* the iterations recorded for the feature method of the text
Iterations == testClasses[1].methods[1].dataIterations

Parsed == dpc = "done" /\ Len(testClasses) = 1 /\ Len(testClasses[1].methods) = 1

\* no cell of data row k holds a separator character
PlainRow(d, k) ==
    \A j \in 1..Len(d.header) :
        Count(RowTexts(d, k)[j], "|") = 0 /\ Count(RowTexts(d, k)[j], ";") = 0

\* the columns of the header that hold a name, in column order
RECURSIVE NamedColumns(_, _)
NamedColumns(h, j) ==
    IF j > Len(h) THEN <<>>
    ELSE (IF h[j] = "_" THEN <<>> ELSE <<j>>) \o NamedColumns(h, j + 1)

(***************************************************************************)
(* C17: a where block holding only a table of n >= 2 named columns and m   *)
(* data rows of n cells yields exactly m iterations; iteration k has       *)
(* index k (from 0) and its dataValues map each header name, in column     *)
(* order, to the coerced value of the cell of data row k in that column.   *)
(***************************************************************************)
C17_TableRoundTrip ==
    dpc = "done" =>
      LET d == tableDesc
      IN  ( /\ \A j \in 1..Len(d.header) : d.header[j] = "name"
            /\ \A k \in 1..Len(d.rows) : PlainRow(d, k) )
          => /\ Parsed
             /\ testClasses[1].methods[1].isDataDriven
             /\ Len(Iterations) = Len(d.rows)
             /\ \A k \in 1..Len(d.rows) :
                   /\ Iterations[k].index = k - 1
                   /\ Iterations[k].dataValues =
                         [j \in 1..Len(d.header) |->
                             [key   |-> <<ColumnNames[j]>>,
                              value |-> Row(Len(d.header), d.rows[k])[j].value]]

\* header a, b and the single row 1, 2 parsed to one iteration {a: 1, b: 2}
C17_Witness ==
    /\ Parsed
    /\ tableDesc.header = <<"name", "name">> /\ tableDesc.rows = <<1>>
    /\ Len(Iterations) = 1
    /\ Iterations[1].index = 0
    /\ Iterations[1].dataValues =
          << [key |-> <<"a">>, value |-> Value("number", <<"1">>)],
             [key |-> <<"b">>, value |-> Value("number", <<"2">>)] >>

\* the values the descriptor gives for data row k, under the named columns
ExpectedValues(d, k) ==
    LET named == NamedColumns(d.header, 1)
    IN  [t \in 1..Len(named) |->
            [key   |-> <<ColumnNames[named[t]]>>,
             value |-> Row(Len(d.header), d.rows[k])[named[t]].value]]

\* the text of data row k as written in the file
RowLine(d, k) == TableLine(RowTexts(d, k), d.style)

\* the two pieces of a two-cell `;` row that holds one `|` inside a cell
BarPieces(d, k) ==
    LET line == RowLine(d, k)
        bar  == FirstIn(line, 1, {"|"})
    IN  <<Trim(SubSeq(line, 1, bar - 1)), Trim(SubSeq(line, bar + 1, Len(line)))>>

(***************************************************************************)
(* C18: a row is split on the separator that occurs most often, ties going *)
(* to the first of `||`, `;;`, `|`, `;`; cells are trimmed and empty cells *)
(* dropped.  A row with more `;` than `|` keeps a cell holding an          *)
(* incidental `|` whole; a row with as many `|` as `;` is split on `|`; a  *)
(* row written with `||` or `;;` before its last column loses the empty    *)
(* piece between the two characters.                                       *)
(***************************************************************************)
C18_MostFrequentSeparator ==
    dpc = "done" =>
      LET d == tableDesc
      IN  /\ Parsed
          /\ Len(Iterations) = Len(d.rows)
          /\ \A k \in 1..Len(d.rows) :
                LET line  == RowLine(d, k)
                    semis == Count(line, ";")
                    bars  == Count(line, "|")
                    named == NamedColumns(d.header, 1)
                IN  /\ (semis > bars \/ PlainRow(d, k))
                         => Iterations[k].dataValues = ExpectedValues(d, k)
                    /\ (semis = bars /\ Len(d.header) = 2)
                         => Iterations[k].dataValues =
                               [t \in 1..Len(named) |->
                                   [key   |-> <<ColumnNames[named[t]]>>,
                                    value |-> Value("string", BarPieces(d, k)[named[t]])]]

\* a parsed `;` table of three columns whose row holds 'y|z' as one cell
C18_Witness ==
    /\ Parsed
    /\ tableDesc.style = ";" /\ tableDesc.header = <<"name", "name", "name">>
    /\ tableDesc.rows = <<8>>
    /\ Len(Iterations) = 1
    /\ Iterations[1].dataValues[2] =
          [key |-> <<"b">>, value |-> Value("string", <<"y", "|", "z">>)]

(***************************************************************************)
(* C20: a header cell that is exactly `_` never becomes a key of           *)
(* dataValues and still occupies its column: every key is a header name    *)
(* other than `_`, and each named column takes the cell at its own         *)
(* position.                                                               *)
(***************************************************************************)
C20_PlaceholderColumnSkipped ==
    dpc = "done" =>
      /\ Parsed
      /\ \A k \in 1..Len(Iterations) :
            LET dv == Iterations[k].dataValues
            IN  /\ \A t \in 1..Len(dv) :
                      /\ dv[t].key # <<"_">>
                      /\ \E j \in 1..Len(tableDesc.header) :
                            tableDesc.header[j] = "name" /\ dv[t].key = <<ColumnNames[j]>>
                /\ PlainRow(tableDesc, k) => dv = ExpectedValues(tableDesc, k)

\* header a | _ | c with the row 1 | 2 | -3 parsed to {a: 1, c: -3}
C20_Witness ==
    /\ Parsed
    /\ tableDesc.header = <<"name", "_", "name">> /\ tableDesc.rows = <<1>>
    /\ Len(Iterations) = 1
    /\ Iterations[1].dataValues =
          << [key |-> <<"a">>, value |-> Value("number", <<"1">>)],
             [key |-> <<"c">>, value |-> Value("number", <<"-", "3">>)] >>

(***************************************************************************)
(* Value tokens: texts of one class with one feature method whose where    *)
(* block holds a data pipe  x << [token, ...]                              *)
(***************************************************************************)
MaxElements == 2

\* tokens and the values the coercion rules name for them
TokenList ==
    << Cell(<<"1">>, Value("number", <<"1">>)),
       Cell(<<"-", "2">>, Value("number", <<"-", "2">>)),
       Cell(<<"0", "7">>, Value("number", <<"7">>)),
       Cell(<<"1", ".", "5", "0">>, Value("number", <<"1", ".", "5">>)),
       Cell(<<"-", "0", ".", "2", "5">>, Value("number", <<"-", "0", ".", "2", "5">>)),
       Cell(<<"true">>, Value("boolean", <<"true">>)),
       Cell(<<"false">>, Value("boolean", <<"false">>)),
       Cell(<<"null">>, Value("null", <<"null">>)),
       Cell(<<"\"", "x", "\"">>, Value("string", <<"x">>)),
       Cell(<<"'", "x", " ", "y", "'">>, Value("string", <<"x", " ", "y">>)),
       Cell(<<"\"", "\"">>, Value("string", <<>>)),
       Cell(<<"foo">>, Value("string", <<"foo">>)),
       Cell(<<"1", ".">>, Value("string", <<"1", ".">>)),
       Cell(<<"True">>, Value("string", <<"True">>)),
       Cell(<<"\"", "x", "'">>, Value("string", <<"\"", "x", "'">>)),
       Cell(<<"\"">>, Value("string", <<"\"">>)) >>

PipeDescs ==
    {[kind |-> "pipe", elements |-> e] : e \in SeqsUpTo(1..Len(TokenList), MaxElements)}

\* the tokens e[j..] separated by commas
RECURSIVE JoinElements(_, _)
JoinElements(e, j) ==
    IF j > Len(e) THEN <<>>
    ELSE TokenList[e[j]].text
           \o (IF j < Len(e) THEN <<",", " ">> ELSE <<>>) \o JoinElements(e, j + 1)

PipeLine(e) ==
    <<" ", " ", " ", " ", "x", " ", "<", "<", " ", "[">> \o JoinElements(e, 1) \o <<"]">>

\* the file text of a pipe descriptor
PipeText(d) ==
    <<ClassA, QuotedHeading(AddsNumbers, TRUE), ExpectLabel, Statement, WhereLabel,
      PipeLine(d.elements), CloseBrace, <<"}">> >>

PipeStart(descs) ==
    /\ tableDesc \in descs
    /\ lines = PipeText(tableDesc)
    /\ i = 1
    /\ testClasses = <<>>
    /\ currentClass = 0
    /\ inClass = FALSE
    /\ classBraceBalance = 0
    /\ seenClassOpeningBrace = FALSE
    /\ classNestingLevel = 0
    /\ dpc = "scan"

InitPipe ==
    PipeStart(PipeDescs) /\ ConsoleIdle /\ XmlIdle /\ RepeatIdle /\ RunIdle /\ ExecIdle
      /\ DebugIdle /\ WatchIdle

SpecPipe == InitPipe /\ [][DiscoveryNext]_vars

(***************************************************************************)
(* C19: parseValue turns a token matching -?\d+ into that integer, one     *)
(* matching -?\d+\.\d+ into that number, true and false into the booleans, *)
(* null into the null value, a token enclosed in matching quotes into the  *)
(* text between them, and every other token into itself unchanged: the     *)
(* k-th iteration of the pipe holds the value named for its k-th token.    *)
(***************************************************************************)
C19_ValueCoercion ==
    dpc = "done" =>
      /\ Parsed
      /\ Len(Iterations) = Len(tableDesc.elements)
      /\ \A k \in 1..Len(tableDesc.elements) :
            Iterations[k].dataValues =
               <<[key |-> <<"x">>, value |-> TokenList[tableDesc.elements[k]].value]>>

(***************************************************************************)
(* Arbitrary texts: every text of up to MaxTotal lines of the pool, alone  *)
(* or after an opened class, feature method and where label                *)
(***************************************************************************)
MaxTotal == 4

PipeOpen == <<" ", " ", " ", " ", "x", " ", "<", "<", " ", "[", "1", ",">>

TotalPool ==
    {ClassA, DefQuoted, WhereLabel, TableLine(<< <<"a">>, <<"b">> >>, "|"), PipeOpen,
     CloseBrace, Blank}

TotalTexts ==
    {pre \o t : pre \in {<<>>, <<ClassA, DefQuoted, WhereLabel>>},
                t   \in SeqsUpTo(TotalPool, MaxTotal)} \ {<<>>}

\* parseTestsInFile is called on one of the texts
TotalCall ==
    /\ dpc = "idle"
    /\ lines' \in TotalTexts
    /\ i' = 1
    /\ testClasses' = <<>>
    /\ currentClass' = 0
    /\ inClass' = FALSE
    /\ classBraceBalance' = 0
    /\ seenClassOpeningBrace' = FALSE
    /\ classNestingLevel' = 0
    /\ dpc' = "scan"
    /\ tableDesc' = <<>>
    /\ UNCHANGED <<consoleVars, xmlVars, repeatVars, runVars, execVars, debugVars, watchVars>>

TotalNext == TotalCall \/ DiscoveryNext

InitTotal ==
    DiscoveryIdle /\ ConsoleIdle /\ XmlIdle /\ RepeatIdle /\ RunIdle /\ ExecIdle
      /\ DebugIdle /\ WatchIdle

\* the control flow of parseTestsInFile: the call enters the for loop, the
\* loop takes the next line while i < lines.length, and the function returns
\* after the loop
LoopStep ==
    \/ dpc = "idle" /\ dpc' = "scan" /\ i' = 1
    \/ dpc = "scan" /\ i <= Len(lines) /\ i' = i + 1 /\ dpc' = "scan"
    \/ dpc = "scan" /\ i > Len(lines) /\ i' = i /\ dpc' = "done"

\* a sequential function keeps running: the loop goes on while lines are left
SpecTotal == InitTotal /\ [][TotalNext]_vars /\ WF_<<i, dpc>>(LoopStep)

(***************************************************************************)
(* C15: parseTestsInFile raises on no text (the empty text, unbalanced     *)
(* braces and a where block cut off by the end of the text included), it   *)
(* returns on every text, and for a text without a class declaration it    *)
(* returns the empty sequence.                                             *)
(***************************************************************************)
C15_TotalOnEveryText ==
    /\ [](dpc # "raised")
    /\ [](dpc = "scan" => <>(dpc = "done"))
    /\ []((dpc = "done" /\ \A k \in 1..Len(lines) : ~IsClassLine(lines, k))
             => testClasses = <<>>)

\* the scan returned on a text whose where block, with an array literal left
\* open, is cut off by the end of the text
C15_Witness ==
    /\ dpc = "done"
    /\ lines = <<ClassA, DefQuoted, WhereLabel, TableLine(<< <<"a">>, <<"b">> >>, "|"),
                 PipeOpen>>
    /\ Len(testClasses) = 1 /\ Len(testClasses[1].methods) = 1

(***************************************************************************)
(* Repeated parsing: calls of parseTestsInFile and of parseConsoleOutput,  *)
(* one after the other, each recorded with what it returned                *)
(***************************************************************************)
MaxCalls == 3

RepeatTexts ==
    { TableText([kind |-> "table", header |-> <<"name", "name">>, rows |-> <<1, 2>>,
                 style |-> "|"]),
      PipeText([kind |-> "pipe", elements |-> <<1, 9>>]),
      <<ClassB, DefQuoted, ExpectLabel, CloseBrace, <<"}">> >> }

RepeatOutputs ==
    { << IterationDesc(FooPrefix, Bar, ParamX1, 0, "PASSED"),
         IterationDesc(GradlePrefix, Bar, ParamXY, 1, "FAILED") >>,
      << IterationDesc(FooPrefix, Dotted, ParamX1, 0, "PASSED"),
         [kind |-> "noise", prefix |-> <<"BUILD", " ", "SUCCESSFUL">>, name |-> <<>>,
          params |-> <<>>, index |-> 0, status |-> ""] >> }

\* no parse is running: the parsers are synchronous
NoParseRunning == dpc # "scan" /\ cpc # "scan"

\* a call of parseTestsInFile whose testClasses are those of the call before
ParseCall_KeepsClasses ==
    /\ NoParseRunning /\ Len(calls) < MaxCalls
    /\ lines' \in RepeatTexts
    /\ i' = 1
    /\ testClasses' = testClasses
    /\ currentClass' = 0
    /\ inClass' = FALSE
    /\ classBraceBalance' = 0
    /\ seenClassOpeningBrace' = FALSE
    /\ classNestingLevel' = 0
    /\ dpc' = "scan"
    /\ UNCHANGED tableDesc

\* a call of parseTestsInFile: its locals are set up anew
ParseCall ==
    /\ NoParseRunning /\ Len(calls) < MaxCalls
    /\ lines' \in RepeatTexts
    /\ i' = 1
    /\ testClasses' = <<>>
    /\ currentClass' = 0
    /\ inClass' = FALSE
    /\ classBraceBalance' = 0
    /\ seenClassOpeningBrace' = FALSE
    /\ classNestingLevel' = 0
    /\ dpc' = "scan"
    /\ UNCHANGED tableDesc

\* return testClasses
ParseReturn ==
    /\ DiscoveryReturn
    /\ calls' = Append(calls, [text |-> lines, classes |-> testClasses])
    /\ UNCHANGED consoleCalls

\* a call of parseConsoleOutput: its locals are set up anew
ConsoleCall ==
    /\ NoParseRunning /\ Len(consoleCalls) < MaxCalls
    /\ consoleDesc' \in RepeatOutputs
    /\ output' = [k \in 1..Len(consoleDesc') |-> createConsoleOutput(consoleDesc'[k])]
    /\ testName' \in TestNames
    /\ ci' = 1
    /\ results' = <<>>
    /\ cpc' = "scan"

\* return results
RepeatConsoleReturn ==
    /\ ConsoleReturn
    /\ consoleCalls' = Append(consoleCalls,
                           [output |-> output, testName |-> testName,
                            count |-> Len(results)])
    /\ UNCHANGED calls

RepeatNext ==
    \/ (ParseCall /\ UNCHANGED <<consoleVars, xmlVars, repeatVars, runVars, execVars, debugVars, watchVars>>)
    \/ (ClassLine /\ UNCHANGED <<consoleVars, xmlVars, repeatVars, runVars, execVars, debugVars, watchVars>>)
    \/ (MethodLine /\ UNCHANGED <<consoleVars, xmlVars, repeatVars, runVars, execVars, debugVars, watchVars>>)
    \/ (OtherLine /\ UNCHANGED <<consoleVars, xmlVars, repeatVars, runVars, execVars, debugVars, watchVars>>)
    \/ (ParseReturn /\ UNCHANGED <<consoleVars, xmlVars, runVars, execVars, debugVars, watchVars>>)
    \/ (ConsoleCall /\ UNCHANGED <<discoveryVars, xmlVars, repeatVars, runVars, execVars, debugVars, watchVars>>)
    \/ (ConsoleMatchLine /\ UNCHANGED <<discoveryVars, xmlVars, repeatVars, runVars, execVars, debugVars, watchVars>>)
    \/ (ConsoleSkipLine /\ UNCHANGED <<discoveryVars, xmlVars, repeatVars, runVars, execVars, debugVars, watchVars>>)
    \/ (RepeatConsoleReturn /\ UNCHANGED <<discoveryVars, xmlVars, runVars, execVars, debugVars, watchVars>>)

InitRepeat ==
    DiscoveryIdle /\ ConsoleIdle /\ XmlIdle /\ RepeatIdle /\ RunIdle /\ ExecIdle
      /\ DebugIdle /\ WatchIdle

SpecRepeat == InitRepeat /\ [][RepeatNext]_vars

TextPart(text)  == [ph |-> FALSE, text |-> text]
Placeholder(nm) == [ph |-> TRUE, text |-> nm]

NameList ==
    << <<TextPart(<<"max", " ", "of", " ">>), Placeholder(<<"a">>),
         TextPart(<<" ", "and", " ">>), Placeholder(<<"b">>)>>,
       <<TextPart(<<"adds", " ", "numbers">>)>>,
       <<Placeholder(<<"c">>), TextPart(<<" ", "holds", " ", "for", " ">>),
         Placeholder(<<"a">>)>>,
       <<Placeholder(<<"a">>), Placeholder(<<"b">>)>>,
       <<TextPart(<<"uses", " ">>), Placeholder(<<"person", ".", "name">>)>>,
       <<TextPart(<<"ends", " ", "with", " ">>), Placeholder(<<"a", ".">>)>>,
       <<TextPart(<<"fixes", " ", "issue", " ", "#", "4", "2">>)>>,
       <<TextPart(<<"prints", " ">>), Placeholder(<<"toString">>)>> >>

\* the raw method name of the segments segs[k..]
RECURSIVE RawName(_, _)
RawName(segs, k) ==
    IF k > Len(segs) THEN <<>>
    ELSE (IF segs[k].ph THEN <<"#">> ELSE <<>>) \o segs[k].text \o RawName(segs, k + 1)

NameDescs ==
    {[kind |-> "named", name |-> n, header |-> h, rows |-> RowNumbers(s, m), style |-> "|"] :
        n \in 1..Len(NameList), h \in Headers(2), s \in 1..Len(CellList) - 3,
        m \in 0..MaxRows}

\* the file text of a name descriptor
NameText(d) ==
    [TableText(d) EXCEPT ![2] = QuotedHeading(RawName(NameList[d.name], 1), TRUE)]

NameStart(descs) ==
    /\ tableDesc \in descs
    /\ lines = NameText(tableDesc)
    /\ i = 1
    /\ testClasses = <<>>
    /\ currentClass = 0
    /\ inClass = FALSE
    /\ classBraceBalance = 0
    /\ seenClassOpeningBrace = FALSE
    /\ classNestingLevel = 0
    /\ dpc = "scan"

InitNames ==
    NameStart(NameDescs) /\ ConsoleIdle /\ XmlIdle /\ RepeatIdle /\ RunIdle /\ ExecIdle
      /\ DebugIdle /\ WatchIdle

SpecNames == InitNames /\ [][DiscoveryNext]_vars

HasPlaceholder(segs) == \E k \in 1..Len(segs) : segs[k].ph

\* the text a segment stands for in the display name of data row r
RECURSIVE ExpectedName(_, _, _, _)
ExpectedName(d, segs, k, r) ==
    IF k > Len(segs) THEN <<>>
    ELSE LET cols == {j \in 1..Len(d.header) :
                         d.header[j] = "name" /\ segs[k].text = <<ColumnNames[j]>>}
         IN  (IF ~segs[k].ph THEN segs[k].text
              ELSE IF cols # {}
                   THEN Row(Len(d.header), d.rows[r])[CHOOSE j \in cols : TRUE].value.val
              ELSE <<"#">> \o segs[k].text)
               \o ExpectedName(d, segs, k + 1, r)

(***************************************************************************)
(* C21: in a display name every placeholder of the raw method name whose   *)
(* name is a key of the iteration's dataValues is replaced by the text of  *)
(* that value, every other placeholder is left as written, and the text    *)
(* outside placeholders is unchanged.                                      *)
(***************************************************************************)
C21_PlaceholdersSubstituted ==
    dpc = "done" =>
      /\ Parsed
      /\ Len(Iterations) = Len(tableDesc.rows)
      /\ HasPlaceholder(NameList[tableDesc.name])
           => \A r \in 1..Len(tableDesc.rows) :
                 Iterations[r].displayName =
                    ExpectedName(tableDesc, NameList[tableDesc.name], 1, r)

\* the synthesized list  k1: v1, k2: v2  of data row r
RECURSIVE ExpectedPairs(_, _, _)
ExpectedPairs(d, j, r) ==
    IF j > Len(d.header) THEN <<>>
    ELSE (IF d.header[j] = "_" THEN <<>>
          ELSE <<ColumnNames[j], ":", " ">> \o Row(Len(d.header), d.rows[r])[j].value.val
                 \o (IF \E j2 \in j + 1..Len(d.header) : d.header[j2] = "name"
                     THEN <<",", " ">> ELSE <<>>))
           \o ExpectedPairs(d, j + 1, r)

(***************************************************************************)
(* C22: when the raw method name holds no placeholder, the display name is *)
(* `<methodName> [<k1>: <v1>, <k2>: <v2>, ...]` with all dataValues in     *)
(* column order.                                                           *)
(***************************************************************************)
C22_SynthesizedName ==
    dpc = "done" =>
      /\ Parsed
      /\ ~HasPlaceholder(NameList[tableDesc.name])
           => \A r \in 1..Len(tableDesc.rows) :
                 Iterations[r].displayName =
                    RawName(NameList[tableDesc.name], 1) \o <<" ", "[">>
                      \o ExpectedPairs(tableDesc, 1, r) \o <<"]">>

(***************************************************************************)
(* Where blocks that mix table rows and pipe lines, in any order           *)
(***************************************************************************)
MaxItems == 3

RowItem(cells) == [kind |-> "row", variable |-> "", cells |-> cells, split |-> 0]

\* a pipe line of the variable over the elements; split > 0: the array
\* literal goes on on the next line after that many elements
PipeItem(variable, elements, split) ==
    [kind |-> "pipe", variable |-> variable, cells |-> elements, split |-> split]

ItemList ==
    << RowItem(<<CellList[1], CellList[2]>>),
       RowItem(<<CellList[6], CellList[8]>>),
       PipeItem("x", <<CellList[1], CellList[5]>>, 0),
       PipeItem("y", <<>>, 0),
       PipeItem("w", <<CellList[1], CellList[2], CellList[3]>>, 1),
       \* q << ["a, b", "c"] : the elements are the pieces between commas
       PipeItem("q", <<Cell(<<"\"", "a">>, Value("string", <<"\"", "a">>)),
                       Cell(<<"b", "\"">>, Value("string", <<"b", "\"">>)),
                       Cell(<<"\"", "c", "\"">>, Value("string", <<"c">>))>>, 0),
       \* p << [new Person(name: "Al", age: 3)]
       PipeItem("p", <<Cell(<<"new", " ", "Person", "(", "name", ":", " ", "\"", "Al", "\"",
                              ",", " ", "age", ":", " ", "3", ")">>,
                            Value("object", <<"name", ":", "Al", "age", ":", "3">>))>>, 0) >>

\* the element texts cells[j..n] separated by commas
RECURSIVE JoinItems(_, _, _)
JoinItems(cells, j, n) ==
    IF j > n THEN <<>>
    ELSE cells[j].text \o (IF j < n THEN <<",", " ">> ELSE <<>>) \o JoinItems(cells, j + 1, n)

\* the lines an item is written on
ItemLines(it) ==
    LET n    == Len(it.cells)
        head == <<" ", " ", " ", " ", it.variable, " ", "<", "<", " ", "[">>
    IN  IF it.kind = "row"
        THEN <<TableLine(<<it.cells[1].text, it.cells[2].text>>, "|")>>
        ELSE IF it.split = 0 THEN <<head \o JoinItems(it.cells, 1, n) \o <<"]">> >>
        ELSE << head \o JoinItems(it.cells, 1, it.split) \o <<",">>,
                <<" ", " ", " ", " ", " ", " ">> \o JoinItems(it.cells, it.split + 1, n)
                  \o <<"]">> >>

\* the lines of the items items[k..], the header row a | b before the first row
RECURSIVE BlockLines(_, _, _)
BlockLines(items, k, headed) ==
    IF k > Len(items) THEN <<>>
    ELSE LET it == ItemList[items[k]]
         IN  (IF it.kind = "row" /\ ~headed
              THEN <<TableLine(<< <<"a">>, <<"b">> >>, "|")>> ELSE <<>>)
               \o ItemLines(it)
               \o BlockLines(items, k + 1, headed \/ it.kind = "row")

\* where blocks of up to MaxItems different items
BlockDescs ==
    {[kind |-> "block", items |-> q] :
        q \in {f \in SeqsUpTo(1..Len(ItemList), MaxItems) :
                  \A a, b \in 1..Len(f) : a # b => f[a] # f[b]}}

BlockText(d) ==
    <<ClassA, QuotedHeading(AddsNumbers, TRUE), ExpectLabel, Statement, WhereLabel>>
      \o BlockLines(d.items, 1, FALSE) \o <<CloseBrace, <<"}">> >>

BlockStart(descs) ==
    /\ tableDesc \in descs
    /\ lines = BlockText(tableDesc)
    /\ i = 1
    /\ testClasses = <<>>
    /\ currentClass = 0
    /\ inClass = FALSE
    /\ classBraceBalance = 0
    /\ seenClassOpeningBrace = FALSE
    /\ classNestingLevel = 0
    /\ dpc = "scan"

InitBlock ==
    BlockStart(BlockDescs) /\ ConsoleIdle /\ XmlIdle /\ RepeatIdle /\ RunIdle /\ ExecIdle
      /\ DebugIdle /\ WatchIdle

SpecBlock == InitBlock /\ [][DiscoveryNext]_vars

(***************************************************************************)
(* C23: in every dataIterations sequence the iteration at position k has   *)
(* index k, counted from 0, whatever mix of pipe lines and table rows the  *)
(* where block holds.                                                      *)
(***************************************************************************)
C23_IndicesSequential ==
    dpc = "done" =>
      /\ Parsed
      /\ \A k \in 1..Len(Iterations) : Iterations[k].index = k - 1

\* a block of a table row, a pipe line and another table row parsed to four
\* iterations
C23_Witness ==
    /\ Parsed
    /\ tableDesc.items = <<1, 3, 2>>
    /\ Len(Iterations) = 4
    /\ Iterations[4].index = 3

\* the item of the block that produced an iteration: the pipe line of its
\* variable, or the table row of its values
Producer(it) ==
    CHOOSE p \in 1..Len(tableDesc.items) :
        LET item == ItemList[tableDesc.items[p]]
        IN  IF item.kind = "pipe"
            THEN it.dataValues[1].key = <<item.variable>>
            ELSE it.dataValues = << [key |-> <<"a">>, value |-> item.cells[1].value],
                                    [key |-> <<"b">>, value |-> item.cells[2].value] >>

(***************************************************************************)
(* C24: iteration indices follow file order inside a where block: when the *)
(* table row or pipe line that produced iteration X stands before the one  *)
(* that produced iteration Y, X has the smaller index, also when table     *)
(* rows come before a pipe line.                                           *)
(***************************************************************************)
C24_IndicesFollowFileOrder ==
    dpc = "done" =>
      /\ Parsed
      /\ \A x, y \in 1..Len(Iterations) :
            Producer(Iterations[x]) < Producer(Iterations[y])
              => Iterations[x].index < Iterations[y].index

\* the iterations of the pipe line of item p, in order
PipeIterations(p) ==
    SelectSeq(Iterations,
              LAMBDA it : it.dataValues[1].key = <<ItemList[tableDesc.items[p]].variable>>)

(***************************************************************************)
(* C26: a pipe line  variable << [e1, ..., en], its array literal going on *)
(* over the following lines until a `]`, yields exactly n iterations, one  *)
(* per element in element order, whose dataValues hold only the variable   *)
(* with the coerced element; an empty array literal yields none.           *)
(***************************************************************************)
C26_OneIterationPerElement ==
    dpc = "done" =>
      /\ Parsed
      /\ \A p \in 1..Len(tableDesc.items) :
            LET item == ItemList[tableDesc.items[p]]
            IN  item.kind = "pipe" =>
                  /\ Len(PipeIterations(p)) = Len(item.cells)
                  /\ \A e \in 1..Len(item.cells) :
                        PipeIterations(p)[e].dataValues =
                           <<[key |-> <<item.variable>>, value |-> item.cells[e].value]>>

\* a pipe line whose array literal goes on on the next line parsed to three
\* iterations, after a pipe line with an empty array literal
C26_Witness ==
    /\ Parsed
    /\ tableDesc.items = <<4, 5>>
    /\ Len(Iterations) = 3
    /\ Iterations[3].dataValues =
          <<[key |-> <<"w">>, value |-> Value("number", <<"-", "3">>)]>>

(***************************************************************************)
(* Where blocks and method bodies: one class of up to MaxMethods feature   *)
(* methods, each written in one of five shapes                             *)
(***************************************************************************)
MaxMethods == 2

FeatureNames == << <<"first">>, <<"second">>, <<"third">>, <<"fourth">> >>

IfLine == <<" ", " ", " ", " ", "if", " ", "(", "x", ")", " ", "{">>
EndIf == <<" ", " ", " ", " ", "}">>
OneLineBody == <<" ", " ", "{", " ", "expect", ":", " ", "true", " ", "}">>
HeaderAB == TableLine(<< <<"a">>, <<"b">> >>, "|")
RowOneTwo == TableLine(<< <<"1">>, <<"2">> >>, "|")

\* the shapes: lines, the line of `where:` within them (0: none) and the
\* last line of the where block
FeatureShapes ==
    << \* a body without a where block
       [lines |-> <<ExpectLabel, Statement, CloseBrace>>, brace |-> TRUE,
        where |-> 0, end |-> 0],
       \* a body with a where block
       [lines |-> <<ExpectLabel, Statement, WhereLabel, HeaderAB, RowOneTwo, CloseBrace>>,
        brace |-> TRUE, where |-> 4, end |-> 6],
       \* a nested block closed before the where block
       [lines |-> <<IfLine, EndIf, ExpectLabel, WhereLabel, HeaderAB, RowOneTwo, CloseBrace>>,
        brace |-> TRUE, where |-> 5, end |-> 7],
       \* the opening brace on the line after the heading
       [lines |-> <<OpenBrace, ExpectLabel, WhereLabel, HeaderAB, RowOneTwo, CloseBrace>>,
        brace |-> FALSE, where |-> 4, end |-> 6],
       \* the whole body on the line after the heading
       [lines |-> <<OneLineBody>>, brace |-> FALSE, where |-> 0, end |-> 0] >>

FeatureLines(shape, p) ==
    <<QuotedHeading(FeatureNames[p], FeatureShapes[shape].brace)>>
      \o FeatureShapes[shape].lines

RECURSIVE FeaturesLines(_, _)
FeaturesLines(shapes, p) ==
    IF p > Len(shapes) THEN <<>>
    ELSE FeatureLines(shapes[p], p) \o FeaturesLines(shapes, p + 1)

WhereDescs ==
    {[kind |-> "where", methods |-> m] :
        m \in SeqsUpTo(1..Len(FeatureShapes), MaxMethods) \ {<<>>}}

WhereText(d) == <<ClassA>> \o FeaturesLines(d.methods, 1) \o << <<"}">>, Blank >>

WhereStart(descs) ==
    /\ tableDesc \in descs
    /\ lines = WhereText(tableDesc)
    /\ i = 1
    /\ testClasses = <<>>
    /\ currentClass = 0
    /\ inClass = FALSE
    /\ classBraceBalance = 0
    /\ seenClassOpeningBrace = FALSE
    /\ classNestingLevel = 0
    /\ dpc = "scan"

InitWhere ==
    WhereStart(WhereDescs) /\ ConsoleIdle /\ XmlIdle /\ RepeatIdle /\ RunIdle /\ ExecIdle
      /\ DebugIdle /\ WatchIdle

SpecWhere == InitWhere /\ [][DiscoveryNext]_vars

\* the 0-based line of the heading of method p
RECURSIVE HeadingLine(_, _)
HeadingLine(shapes, p) ==
    IF p = 1 THEN 1
    ELSE HeadingLine(shapes, p - 1) + 1 + Len(FeatureShapes[shapes[p - 1]].lines)

(***************************************************************************)
(* C25: a recorded method is data-driven (isDataDriven with dataIterations *)
(* and a where range) if and only if a `where:` line lies inside its own   *)
(* body; the block runs from that line to the line before the first        *)
(* following `}` line; the `where:` of a later method never makes an       *)
(* earlier method data-driven.                                             *)
(***************************************************************************)
C25_DataDrivenIffOwnWhere ==
    dpc = "done" =>
      LET shapes  == tableDesc.methods
          methods == testClasses[1].methods
      IN  /\ Len(testClasses) = 1
          /\ Len(methods) = Len(shapes)
          /\ \A p \in 1..Len(shapes) :
                LET shape == FeatureShapes[shapes[p]]
                    h     == HeadingLine(shapes, p)
                IN  /\ methods[p].name = FeatureNames[p]
                    /\ methods[p].isDataDriven = (shape.where # 0)
                    /\ shape.where # 0
                         => /\ methods[p].whereStart = h + shape.where - 1
                            /\ methods[p].whereEnd = h + shape.end - 1
                            /\ Len(methods[p].dataIterations) = 1

(***************************************************************************)
(* Console lines whose bracketed text is written from key/value pairs      *)
(***************************************************************************)
Pair(key, text) == [key |-> key, text |-> text]

PairLists ==
    << << Pair(<<"x">>, <<"1">>), Pair(<<"y">>, <<"-", "2", ".", "5", "0">>) >>,
       << Pair(<<"name">>, <<"\"", "a", ",", " ", "b", "\"">>), Pair(<<"n">>, <<"2">>) >>,
       << Pair(<<"v">>, <<"null">>), Pair(<<"ok">>, <<"true">>) >>,
       << Pair(<<"s">>, <<"'", "hi", "'">>), Pair(<<"t">>, <<"foo", " ", "bar">>) >> >>

\* `k1: v1, k2: v2, ...`
RECURSIVE JoinPairs(_, _)
JoinPairs(pairs, k) ==
    IF k > Len(pairs) THEN <<>>
    ELSE (IF k > 1 THEN <<",", " ">> ELSE <<>>)
           \o pairs[k].key \o <<":", " ">> \o pairs[k].text \o JoinPairs(pairs, k + 1)

ParamPool ==
    { [kind |-> "iteration", prefix |-> FooPrefix, name |-> Bar,
       params |-> JoinPairs(PairLists[l], 1), index |-> l - 1,
       status |-> IF l = 2 THEN "FAILED" ELSE "PASSED", pairs |-> PairLists[l]] :
         l \in 1..Len(PairLists) }
    \cup { [kind |-> "noise", prefix |-> <<"BUILD", " ", "SUCCESSFUL">>, name |-> <<>>,
            params |-> <<>>, index |-> 0, status |-> "", pairs |-> <<>>] }

ParamTexts == SeqsUpTo(ParamPool, MaxConsoleLines)

ParamInit ==
    /\ consoleDesc \in ParamTexts
    /\ output = [k \in 1..Len(consoleDesc) |-> createConsoleOutput(consoleDesc[k])]
    /\ testName = Bar
    /\ ci = 1
    /\ results = <<>>
    /\ cpc = "scan"

InitParams ==
    ParamInit /\ DiscoveryIdle /\ XmlIdle /\ RepeatIdle /\ RunIdle /\ ExecIdle
      /\ DebugIdle /\ WatchIdle

SpecParams == InitParams /\ [][ConsoleNext]_vars

\* the descriptors of the iteration lines of the text, in order
IterationDescs == SelectSeq(consoleDesc, LAMBDA d : d.kind = "iteration")

(***************************************************************************)
(* C27: the bracketed text is split into pairs on top-level commas only:   *)
(* each key of the line appears once in parameters, in the order of the    *)
(* line, and its value is the coercion of the whole value text, also when  *)
(* that text is a quoted string holding a comma.                           *)
(***************************************************************************)
C27_SplitOnTopLevelCommas ==
    cpc = "done" =>
      /\ Len(results) = Len(IterationDescs)
      /\ \A r \in 1..Len(results) :
           LET pairs == IterationDescs[r].pairs
           IN  results[r].parameters =
                 [k \in 1..Len(pairs) |->
                    [key |-> pairs[k].key, value |-> CoerceParameter(pairs[k].text)]]

(***************************************************************************)
(* C28: a console parameter whose value text is the token `null` is stored *)
(* as the string "null", never as the null value, while parseValue of      *)
(* discovery gives the null value for the same token.                      *)
(***************************************************************************)
C28_NullIsAString ==
    \A r \in 1..Len(results) :
      \A k \in 1..Len(IterationDescs[r].pairs) :
        LET pair   == IterationDescs[r].pairs[k]
            stored == {results[r].parameters[e] : e \in
                         {e \in DOMAIN results[r].parameters :
                            results[r].parameters[e].key = pair.key}}
        IN  pair.text = <<"null">> =>
              /\ stored = {[key |-> pair.key, value |-> Value("string", <<"null">>)]}
              /\ parseValue(pair.text) = Value("null", <<"null">>)

C28_Witness ==
    /\ cpc = "done"
    /\ Len(results) = 2
    /\ results[2].parameters =
         << [key |-> <<"v">>, value |-> Value("string", <<"null">>)],
            [key |-> <<"ok">>, value |-> Value("boolean", <<"true">>)] >>

(***************************************************************************)
(* SpockTestController.runHandler and runTest                              *)
(***************************************************************************)
MaxInclude == 2
MaxExclude == 1

\* the test items: two files, their classes and test methods; testData gives
\* each item its type (getOrCreateFile, parseTestsInFile of the controller)
ControllerItems == <<"f1", "f2">>
Items == {"f1", "f2", "c1", "c2", "t1", "t2", "t3"}

testData ==
    [item \in Items |->
        [type |-> CASE item \in {"f1", "f2"} -> "file"
                    [] item \in {"c1", "c2"} -> "class"
                    [] OTHER -> "test"]]

\* f1 was discovered before the run, f2 was not: its class and test items
\* are created by discoverTestsInFile
InitialChildren ==
    [item \in Items |->
        CASE item = "f1" -> <<"c1">>
          [] item = "c1" -> <<"t1", "t2">>
          [] item = "c2" -> <<"t3">>
          [] OTHER -> <<>>]

ExistingItems == {"f1", "f2", "c1", "t1", "t2"}

\* what parseTestsInFile adds to a file
FileContent(file) == IF file = "f2" THEN <<"c2">> ELSE <<>>

SeqRange(s) == {s[k] : k \in DOMAIN s}

\* an item and everything below it
RECURSIVE Subtree(_, _)
Subtree(kids, item) ==
    {item} \cup UNION {Subtree(kids, c) : c \in SeqRange(kids[item])}

SubtreeOf(kids, S) == UNION {Subtree(kids, item) : item \in S}

\* the items the traversal starts from
Roots(req) == IF req.hasInclude THEN SeqRange(req.include) ELSE SeqRange(ControllerItems)

\* a TestRunRequest: include is absent or a list of distinct items; exclude
\* holds tests "marked as excluded from the tests included in this run"
Requests ==
    {[hasInclude |-> h, include |-> inc, exclude |-> exc] :
        h \in BOOLEAN,
        inc \in {s \in SeqsUpTo(ExistingItems, MaxInclude) :
                    \A a, b \in DOMAIN s : a # b => s[a] # s[b]},
        exc \in {S \in SUBSET ExistingItems : Cardinality(S) <= MaxExclude}}

ValidRequest(req) ==
    /\ ~req.hasInclude => req.include = <<>>
    /\ req.exclude \subseteq SubtreeOf(InitialChildren, Roots(req))

\* how the execution of one test goes: getWorkspaceFolder gives nothing,
\* detectBuildTool gives null, executeTest throws, or it resolves with
\* success true or false
Outcomes == {"noWorkspaceFolder", "noBuildTool", "thrown", "success", "failure"}

\* request.exclude?.includes(test), telling only test items apart
ExcludeIncludes_TestsOnly(exclude, test) ==
    test \in exclude /\ testData[test].type = "test"

\* request.exclude?.includes(test)
ExcludeIncludes(exclude, test) == test \in exclude

\* reporting passed whenever executeTest did not resolve with success false
Reported_PassedUnlessFailure(outcome) ==
    IF outcome = "failure" THEN "failed" ELSE "passed"

\* what runTest reports after run.started: passed if result.success, failed
\* if not and in the catch clause
Reported(outcome) ==
    IF outcome = "success" THEN "passed" ELSE "failed"

Event(kind, test) == [kind |-> kind, test |-> test]

RunStart ==
    /\ request = <<>>
    /\ children = InitialChildren
    /\ queue = <<>>
    /\ isCancellationRequested = FALSE
    /\ runCalls = <<>>
    /\ events = <<>>
    /\ result = ""
    /\ rpc = "idle"

\* createTestRun and the filling of the queue
RunHandlerCall ==
    /\ rpc = "idle"
    /\ \E req \in Requests :
         /\ ValidRequest(req)
         /\ request' = req
         /\ queue' = IF req.hasInclude THEN req.include ELSE ControllerItems
    /\ rpc' = "loop"
    /\ UNCHANGED <<children, isCancellationRequested, runCalls, events, result>>

\* the loop going on while the queue holds items, cancelled or not
Looping_IgnoresCancellation == rpc = "loop" /\ queue # <<>>

\* while (queue.length > 0 && !token.isCancellationRequested)
Looping == rpc = "loop" /\ queue # <<>> /\ ~isCancellationRequested

\* const test = queue.pop()
Popped == queue[Len(queue)]
Rest == SubSeq(queue, 1, Len(queue) - 1)

\* if (request.exclude?.includes(test)) continue
SkipExcluded ==
    /\ Looping
    /\ ExcludeIncludes(request.exclude, Popped)
    /\ queue' = Rest
    /\ UNCHANGED <<request, children, isCancellationRequested, runCalls, events,
                   result, rpc>>

\* case 'file': discovery if the file has no children (reading the document
\* may fail, which leaves it without children), then its children are queued
VisitFile ==
    /\ Looping
    /\ ~ExcludeIncludes(request.exclude, Popped)
    /\ testData[Popped].type = "file"
    /\ \E found \in {FileContent(Popped), <<>>} :
         children' = IF children[Popped] = <<>>
                     THEN [children EXCEPT ![Popped] = found]
                     ELSE children
    /\ queue' = Rest \o children'[Popped]
    /\ UNCHANGED <<request, isCancellationRequested, runCalls, events, result, rpc>>

\* case 'class': its children are queued
VisitClass ==
    /\ Looping
    /\ ~ExcludeIncludes(request.exclude, Popped)
    /\ testData[Popped].type = "class"
    /\ queue' = Rest \o children[Popped]
    /\ UNCHANGED <<request, children, isCancellationRequested, runCalls, events,
                   result, rpc>>

\* case 'test': runTest is called and reports run.started(test)
RunTestCall ==
    /\ Looping
    /\ ~ExcludeIncludes(request.exclude, Popped)
    /\ testData[Popped].type = "test"
    /\ queue' = Rest
    /\ runCalls' = Append(runCalls, Popped)
    /\ events' = Append(events, Event("started", Popped))
    /\ rpc' = "runTest"
    /\ UNCHANGED <<request, children, isCancellationRequested, result>>

\* the rest of runTest: the execution goes one of the ways of Outcomes and
\* run.passed or run.failed is reported
RunTestReturn ==
    /\ rpc = "runTest"
    /\ \E outcome \in Outcomes :
         /\ result' = outcome
         /\ events' = Append(events, Event(Reported(outcome), runCalls[Len(runCalls)]))
    /\ rpc' = "loop"
    /\ UNCHANGED <<request, children, queue, isCancellationRequested, runCalls>>

\* the user cancels the run
Cancel ==
    /\ rpc \in {"loop", "runTest"}
    /\ ~isCancellationRequested
    /\ isCancellationRequested' = TRUE
    /\ UNCHANGED <<request, children, queue, runCalls, events, result, rpc>>

\* the while loop ends: run.end()
RunEnd ==
    /\ rpc = "loop"
    /\ queue = <<>> \/ isCancellationRequested
    /\ events' = Append(events, Event("end", ""))
    /\ rpc' = "ended"
    /\ UNCHANGED <<request, children, queue, isCancellationRequested, runCalls, result>>

RunNext ==
    \/ (RunHandlerCall /\ UNCHANGED <<discoveryVars, consoleVars, xmlVars, repeatVars, execVars, debugVars,
                             watchVars>>)
    \/ (SkipExcluded /\ UNCHANGED <<discoveryVars, consoleVars, xmlVars, repeatVars, execVars, debugVars,
                             watchVars>>)
    \/ (VisitFile /\ UNCHANGED <<discoveryVars, consoleVars, xmlVars, repeatVars, execVars, debugVars,
                             watchVars>>)
    \/ (VisitClass /\ UNCHANGED <<discoveryVars, consoleVars, xmlVars, repeatVars, execVars, debugVars,
                             watchVars>>)
    \/ (RunTestCall /\ UNCHANGED <<discoveryVars, consoleVars, xmlVars, repeatVars, execVars, debugVars,
                             watchVars>>)
    \/ (RunTestReturn /\ UNCHANGED <<discoveryVars, consoleVars, xmlVars, repeatVars, execVars, debugVars,
                             watchVars>>)
    \/ (Cancel /\ UNCHANGED <<discoveryVars, consoleVars, xmlVars, repeatVars, execVars, debugVars,
                             watchVars>>)
    \/ (RunEnd /\ UNCHANGED <<discoveryVars, consoleVars, xmlVars, repeatVars, execVars, debugVars,
                             watchVars>>)

InitRun ==
    RunStart /\ DiscoveryIdle /\ ConsoleIdle /\ XmlIdle /\ RepeatIdle /\ ExecIdle
      /\ DebugIdle /\ WatchIdle

SpecRun == InitRun /\ [][RunNext]_vars

\* no included item is a descendant of another included item
NoIncludedDescendant ==
    \A a, b \in Roots(request) : a # b => b \notin Subtree(children, a)

\* the test items reachable from the included items, without the subtrees of
\* the excluded items
TestsToRun ==
    {t \in SubtreeOf(children, Roots(request)) \ SubtreeOf(children, request.exclude) :
        testData[t].type = "test"}

(***************************************************************************)
(* C29: when cancellation is never requested and no included item is a     *)
(* descendant of another, runHandler has called runTest exactly once for   *)
(* every test item reachable from the included items (all controller       *)
(* items when include is absent) outside the subtrees of the excluded      *)
(* items, and for no other item, in particular no file or class item.      *)
(***************************************************************************)
C29_EachIncludedTestRunsOnce ==
    (rpc = "ended" /\ ~isCancellationRequested /\ NoIncludedDescendant) =>
      \A item \in Items :
        Count(runCalls, item) = IF item \in TestsToRun THEN 1 ELSE 0

C29_Witness ==
    /\ rpc = "ended" /\ ~isCancellationRequested
    /\ request = [hasInclude |-> TRUE, include |-> <<"f2", "c1">>, exclude |-> {"t1"}]
    /\ runCalls = <<"t2", "t3">>

\* the events about test items
TestEvents == SelectSeq(events, LAMBDA e : e.kind # "end")

(***************************************************************************)
(* C30: for every test runTest starts, run.started is reported first and   *)
(* then exactly one of run.passed and run.failed: passed if and only if    *)
(* the execution resolved with success = true; a missing workspace folder, *)
(* an undetected build tool and a thrown exception give failed.            *)
(***************************************************************************)
C30_StartedThenOneVerdict ==
    LET n == Len(runCalls)
        open == IF rpc = "runTest" THEN 1 ELSE 0
    IN  /\ Len(TestEvents) = 2 * n - open
        /\ \A k \in 1..n :
             /\ TestEvents[2 * k - 1] = Event("started", runCalls[k])
             /\ 2 * k <= Len(TestEvents)
                  => /\ TestEvents[2 * k].test = runCalls[k]
                     /\ TestEvents[2 * k].kind \in {"passed", "failed"}
        /\ (n > 0 /\ open = 0)
             => /\ result \in Outcomes
                /\ TestEvents[2 * n].kind = "passed" <=> result = "success"

C30_Witness ==
    /\ rpc = "ended"
    /\ result = "noBuildTool"
    /\ TestEvents = << Event("started", "t2"), Event("passed", "t2"),
                       Event("started", "t1"), Event("failed", "t1") >>

\* the display name has the form `<name> [ ... ]`
IsIterationOf(displayName, name) ==
    /\ Len(displayName) > Len(name) + 2
    /\ SubSeq(displayName, 1, Len(name) + 2) = name \o <<" ", "[">>
    /\ displayName[Len(displayName)] = "]"

(***************************************************************************)
(* C31: every result parseTestResults returns is an iteration of the       *)
(* requested method testName (display name `testName [..., #i]`), whether  *)
(* it comes from the XML report or from the console text; iterations of    *)
(* other methods of the class are not returned.                            *)
(***************************************************************************)
C31_OnlyRequestedMethod ==
    xpc = "done" =>
      \A r \in 1..Len(returned) : IsIterationOf(returned[r].displayName, testName)

(***************************************************************************)
(* Console lines and table rows written with the same value tokens, none  *)
(* of them `null` and none holding a comma                                 *)
(***************************************************************************)
CoercePairLists ==
    << << Pair(<<"x">>, <<"1">>), Pair(<<"y">>, <<"-", "2", ".", "5", "0">>) >>,
       << Pair(<<"ok">>, <<"true">>), Pair(<<"s">>, <<"'", "hi", "'">>) >>,
       << Pair(<<"t">>, <<"\"", "a", " ", "b", "\"">>), Pair(<<"u">>, <<"foo">>) >>,
       << Pair(<<"p">>, <<"+", "3">>), Pair(<<"n">>, <<"0", "0", "7">>) >>,
       << Pair(<<"q">>, <<".", "5">>), Pair(<<"r">>, <<"Infinity">>) >> >>

CoercePool ==
    { [kind |-> "iteration", prefix |-> FooPrefix, name |-> Bar,
       params |-> JoinPairs(CoercePairLists[l], 1), index |-> l - 1,
       status |-> "PASSED", pairs |-> CoercePairLists[l]] :
         l \in 1..Len(CoercePairLists) }
    \cup { [kind |-> "noise", prefix |-> <<"BUILD", " ", "SUCCESSFUL">>, name |-> <<>>,
            params |-> <<>>, index |-> 0, status |-> "", pairs |-> <<>>] }

CoerceInit ==
    /\ consoleDesc \in SeqsUpTo(CoercePool, MaxConsoleLines)
    /\ output = [k \in 1..Len(consoleDesc) |-> createConsoleOutput(consoleDesc[k])]
    /\ testName = Bar
    /\ ci = 1
    /\ results = <<>>
    /\ cpc = "scan"

InitCoerce ==
    CoerceInit /\ DiscoveryIdle /\ XmlIdle /\ RepeatIdle /\ RunIdle /\ ExecIdle
      /\ DebugIdle /\ WatchIdle

SpecCoerce == InitCoerce /\ [][ConsoleNext]_vars

\* the dataValues discovery builds from a table whose header holds the keys
\* and whose row holds the value texts of the pairs
DiscoveredValues(pairs) ==
    RowValues([k \in 1..Len(pairs) |-> pairs[k].key],
              [k \in 1..Len(pairs) |-> pairs[k].text], 1, <<>>)

(***************************************************************************)
(* C32: for every value token other than `null`, parseParameters gives the *)
(* same typed value as parseValue of discovery, so the parameters of a     *)
(* result equal the dataValues of the discovered iteration written with    *)
(* the same tokens.                                                        *)
(***************************************************************************)
C32_SameCoercionAsDiscovery ==
    \A r \in 1..Len(results) :
      /\ results[r].parameters = DiscoveredValues(IterationDescs[r].pairs)
      /\ \A k \in 1..Len(IterationDescs[r].pairs) :
           CoerceParameter(IterationDescs[r].pairs[k].text)
             = parseValue(IterationDescs[r].pairs[k].text)

\* the scheduling of runHandler: it is called, every awaited step completes
\* (executeTest resolves at the latest when its timeout fires) and the loop
\* goes on until it ends
SpecRunFair == InitRun /\ [][RunNext]_vars /\ WF_vars(RunNext)

EndCount == Len(SelectSeq(events, LAMBDA e : e.kind = "end"))

\* run.end() was called at most once, by the time runHandler has ended exactly
\* once, as the last report and after every started runTest has reported
EndedOnce ==
    /\ EndCount <= 1
    /\ rpc = "ended" <=> EndCount = 1
    /\ EndCount = 1
         => /\ events[Len(events)].kind = "end"
            /\ Len(TestEvents) = 2 * Len(runCalls)

RECURSIVE ItemLine(_, _)
ItemLine(items, p) ==
    LET isRow(k)  == ItemList[items[k]].kind = "row"
        firstRow  == isRow(p) /\ \A k \in 1..(p - 1) : ~isRow(k)
    IN  (IF p = 1 THEN 5
         ELSE ItemLine(items, p - 1) + Len(ItemLines(ItemList[items[p - 1]])))
          + (IF firstRow THEN 1 ELSE 0)

(***************************************************************************)
(* C39: the source range of every table-derived iteration lies on the line *)
(* of the data row it was built from, never on the header row or on the    *)
(* `where:` line, and the range of every pipe-derived iteration lies on    *)
(* its pipe line.                                                          *)
(***************************************************************************)
C39_RangeOnProducingLine ==
    dpc = "done" =>
      /\ Parsed
      /\ \A k \in 1..Len(Iterations) :
            Iterations[k].line = ItemLine(tableDesc.items, Producer(Iterations[k]))

(***************************************************************************)
(* executeTest: the spawned build process, the 5-minute timeout with its   *)
(* 10-second follow-up, the 'close' and 'error' handlers and the promise   *)
(***************************************************************************)
MaxChunks == 2

\* the code of the close event, null when a signal ended the process
ExitCodes == {"0", "1", "null"}

TimedOutMessage == "Test execution timed out after 5 minutes"

\* resolve(value) with the value of the latest call kept
Resolve_LastCallWins(value) == <<value>>

\* resolve(value): a promise keeps the value of the first call
Resolve(value) == IF resolved = <<>> THEN <<value>> ELSE resolved

\* childProcess.kill(signal): the signal is sent, and killed set, if the
\* process has not exited; otherwise kill returns false and changes nothing
Kill(signal, by) ==
    [killed  |-> killed \/ proc = "running",
     signals |-> Append(signals, [signal |-> signal, by |-> by,
                                  sent |-> proc = "running"])]

HandledKinds == {handled[k].kind : k \in DOMAIN handled}

\* the state after spawn, setTimeout and the registration of the handlers
ExecStart ==
    /\ proc \in {"running", "spawnFailed"}
    /\ exitCode = ""
    /\ killed = FALSE
    /\ processKilled = FALSE
    /\ timeoutId = "pending"
    /\ killTimer = "none"
    /\ signals = <<>>
    /\ stdout = <<>>
    /\ resolved = <<>>
    /\ handled = <<>>

\* childProcess.stdout.on('data'): output += text
StdoutData ==
    /\ proc = "running" /\ Len(stdout) < MaxChunks
    /\ stdout' = Append(stdout, "text")
    /\ UNCHANGED <<proc, exitCode, killed, processKilled, timeoutId, killTimer, signals,
                   resolved, handled>>

\* the build process exits, by itself or because of a signal it was sent
ProcessExits ==
    /\ proc = "running"
    /\ \E code \in ExitCodes :
         /\ code = "null" => \E k \in DOMAIN signals : signals[k].sent
         /\ exitCode' = code
    /\ proc' = "exited"
    /\ UNCHANGED <<killed, processKilled, timeoutId, killTimer, signals, stdout,
                   resolved, handled>>

\* the callback of the 5-minute setTimeout
TimeoutFires ==
    /\ timeoutId = "pending"
    /\ timeoutId' = "fired"
    /\ handled' = Append(handled, [kind |-> "timeout", code |-> "", output |-> <<>>])
    /\ IF ~killed /\ ~processKilled
       THEN /\ processKilled' = TRUE
            /\ killed' = Kill("SIGTERM", "timeout").killed
            /\ signals' = Kill("SIGTERM", "timeout").signals
            /\ killTimer' = "pending"
            /\ resolved' = Resolve([success |-> FALSE, error |-> TimedOutMessage,
                                    output |-> <<TimedOutMessage>>])
       ELSE UNCHANGED <<processKilled, killed, signals, killTimer, resolved>>
    /\ UNCHANGED <<proc, exitCode, stdout>>

\* the callback of the 10-second setTimeout
KillTimerFires ==
    /\ killTimer = "pending"
    /\ killTimer' = "fired"
    /\ IF ~killed
       THEN /\ killed' = Kill("SIGKILL", "killTimer").killed
            /\ signals' = Kill("SIGKILL", "killTimer").signals
       ELSE UNCHANGED <<killed, signals>>
    /\ UNCHANGED <<proc, exitCode, processKilled, timeoutId, stdout, resolved, handled>>

\* clearTimeout(timeoutId), and the kill of a process not yet killed
ClearAndKill(by) ==
    /\ timeoutId' = IF timeoutId = "pending" THEN "cleared" ELSE timeoutId
    /\ IF ~killed /\ ~processKilled
       THEN /\ processKilled' = TRUE
            /\ killed' = Kill("SIGTERM", by).killed
            /\ signals' = Kill("SIGTERM", by).signals
       ELSE UNCHANGED <<processKilled, killed, signals>>

\* childProcess.on('close'): after the process has exited, or after a failed
\* spawn has been reported
CloseEvent ==
    /\ "close" \notin HandledKinds
    /\ proc = "exited" \/ (proc = "spawnFailed" /\ "error" \in HandledKinds)
    /\ LET code    == IF proc = "spawnFailed" THEN "errno" ELSE exitCode
           success == code = "0"
       IN  /\ handled' = Append(handled, [kind |-> "close", code |-> code,
                                          output |-> stdout])
           /\ ClearAndKill("close")
           /\ resolved' = Resolve([success |-> success,
                                   error   |-> IF success THEN "" ELSE "parseTestError",
                                   output  |-> stdout])
    /\ UNCHANGED <<proc, exitCode, killTimer, stdout>>

\* childProcess.on('error'): the process could not be spawned, or a fault
\* about the running process is reported
ErrorEvent ==
    /\ "error" \notin HandledKinds /\ "close" \notin HandledKinds
    /\ proc \in {"running", "spawnFailed"}
    /\ handled' = Append(handled, [kind |-> "error", code |-> "", output |-> <<>>])
    /\ ClearAndKill("error")
    /\ resolved' = Resolve([success |-> FALSE, error |-> "error.message",
                            output |-> <<"Process error">>])
    /\ UNCHANGED <<proc, exitCode, killTimer, stdout>>

ExecNext ==
    \/ (StdoutData /\ UNCHANGED <<discoveryVars, consoleVars, xmlVars, repeatVars, runVars,
                                  debugVars, watchVars>>)
    \/ (ProcessExits /\ UNCHANGED <<discoveryVars, consoleVars, xmlVars, repeatVars, runVars,
                                    debugVars, watchVars>>)
    \/ (TimeoutFires /\ UNCHANGED <<discoveryVars, consoleVars, xmlVars, repeatVars, runVars,
                                    debugVars, watchVars>>)
    \/ (KillTimerFires /\ UNCHANGED <<discoveryVars, consoleVars, xmlVars, repeatVars,
                                      runVars, debugVars, watchVars>>)
    \/ (CloseEvent /\ UNCHANGED <<discoveryVars, consoleVars, xmlVars, repeatVars, runVars,
                                  debugVars, watchVars>>)
    \/ (ErrorEvent /\ UNCHANGED <<discoveryVars, consoleVars, xmlVars, repeatVars, runVars,
                                  debugVars, watchVars>>)

InitExec ==
    ExecStart /\ DiscoveryIdle /\ ConsoleIdle /\ XmlIdle /\ RepeatIdle /\ RunIdle
      /\ DebugIdle /\ WatchIdle

SpecExec == InitExec /\ [][ExecNext]_vars

(***************************************************************************)
(* C33: the result of executeTest is fixed by whichever of timeout, close  *)
(* and error is handled first, and no later event changes it: timeout      *)
(* first gives failure with the timed-out message, close first gives       *)
(* success exactly when the exit code is 0, error first gives failure; and *)
(* once close or error has been handled the timeout never fires and never  *)
(* kills the process.                                                      *)
(***************************************************************************)
C33_FirstEventFixesResult ==
    /\ handled = <<>> => resolved = <<>>
    /\ handled # <<>> =>
         /\ Len(resolved) = 1
         /\ handled[1].kind = "timeout"
              => ~resolved[1].success /\ resolved[1].error = TimedOutMessage
         /\ handled[1].kind = "close"
              => /\ resolved[1].success <=> handled[1].code = "0"
                 /\ resolved[1].output = handled[1].output
         /\ handled[1].kind = "error"
              => ~resolved[1].success /\ resolved[1].error = "error.message"
    /\ \A k \in DOMAIN handled : k > 1 => handled[k].kind # "timeout"
    /\ \A k \in DOMAIN signals :
         signals[k].by \in {"timeout", "killTimer"} => handled[1].kind = "timeout"

C33_Witness ==
    /\ Len(handled) = 2
    /\ handled[1].kind = "timeout"
    /\ handled[2].kind = "close" /\ handled[2].code = "0"
    /\ resolved = <<[success |-> FALSE, error |-> TimedOutMessage,
                     output |-> <<TimedOutMessage>>]>>

SentSignals(signal) ==
    SelectSeq(signals, LAMBDA s : s.signal = signal /\ s.sent)

(***************************************************************************)
(* C35: when the execution timeout fires, SIGTERM is sent to the build     *)
(* process once, and if the process has still not exited when the 10       *)
(* seconds are over, SIGKILL is sent to it.                                *)
(***************************************************************************)
C35_SigkillAfterTenSeconds ==
    /\ timeoutId = "fired"
         => Len(SelectSeq(signals, LAMBDA s : s.signal = "SIGTERM")) = 1
    /\ (killTimer = "fired" /\ proc = "running") => Len(SentSignals("SIGKILL")) = 1

(***************************************************************************)
(* startDebugSession and waitForJvmDebugPort, of DebugService and of       *)
(* SpockTestController; time is counted in check intervals                 *)
(***************************************************************************)
MaxWaitTime == 4
MaxProbeTime == 1

maxRetries == 3
requiredSuccesses == 2

JvmNotReady == "JVM not ready"
FailedAfterRetries == "Failed to start debug session after 3 attempts"

\* the counter after a probe, a failed probe leaving it as it is
AfterProbe_NoReset(count, outcome) ==
    IF outcome = "ready" THEN count + 1 ELSE count

\* consecutiveSuccesses after a probe: isReady, not ready, or a fault caught
AfterProbe(count, outcome) ==
    IF outcome = "ready" THEN count + 1 ELSE 0

DebugStart ==
    /\ variant \in {"DebugService", "SpockTestController"}
    /\ elapsed = 0
    /\ consecutiveSuccesses = 0
    /\ probes = <<>>
    /\ jvmReady = ""
    /\ retryCount = 0
    /\ attempts = <<>>
    /\ settled = "pending"
    /\ gpc = "wait"

\* one turn of the while loop of waitForJvmDebugPort: the probe, the counter,
\* `return true` at two successes in a row, else the sleep of one interval;
\* on `true` startDebugSession goes on to its next step
WaitProbe ==
    /\ gpc = "wait" /\ elapsed < MaxWaitTime
    /\ \E outcome \in {"ready", "notReady", "error"}, took \in 0..MaxProbeTime :
         LET count == AfterProbe(consecutiveSuccesses, outcome)
         IN  /\ probes' = Append(probes, outcome)
             /\ consecutiveSuccesses' = count
             /\ IF outcome = "ready" /\ count >= requiredSuccesses
                THEN /\ jvmReady' = "true"
                     /\ elapsed' = Min(elapsed + took, MaxWaitTime)
                     /\ gpc' = IF variant = "SpockTestController" THEN "ensure"
                               ELSE "attach"
                ELSE /\ jvmReady' = jvmReady
                     /\ elapsed' = Min(elapsed + took + 1, MaxWaitTime)
                     /\ gpc' = "wait"
    /\ UNCHANGED <<variant, retryCount, attempts, settled>>

\* the loop condition fails: `return false`, and startDebugSession throws
\* (DebugService) or rejects (SpockTestController)
WaitTimesOut ==
    /\ gpc = "wait" /\ elapsed >= MaxWaitTime
    /\ jvmReady' = "false"
    /\ settled' = JvmNotReady
    /\ gpc' = "done"
    /\ UNCHANGED <<variant, elapsed, consecutiveSuccesses, probes, retryCount, attempts>>

\* await this.ensureLaunchConfiguration(workspacePath) inside the executor
\* `new Promise(async (resolve, reject) => ...)`: when it throws (mkdirSync,
\* a launch.json without a configurations list) the executor ends and neither
\* resolve nor reject is called
EnsureLaunchConfiguration ==
    /\ gpc = "ensure"
    /\ \E throws \in BOOLEAN : gpc' = IF throws THEN "abandoned" ELSE "attach"
    /\ UNCHANGED <<variant, elapsed, consecutiveSuccesses, probes, jvmReady, retryCount,
                   attempts, settled>>

\* one turn of `while (retryCount < maxRetries)`: attemptDebugConnection
\* resolves, or rejects because startDebugging gave false or threw
AttachAttempt ==
    /\ gpc = "attach" /\ retryCount < maxRetries
    /\ \E outcome \in {"started", "refused", "thrown"} :
         /\ attempts' = Append(attempts, outcome)
         /\ IF outcome = "started"
            THEN /\ settled' = "resolved"
                 /\ gpc' = "done"
                 /\ retryCount' = retryCount
            ELSE /\ settled' = settled
                 /\ gpc' = "attach"
                 /\ retryCount' = retryCount + 1
    /\ UNCHANGED <<variant, elapsed, consecutiveSuccesses, probes, jvmReady>>

\* the loop ends: throw / reject 'Failed to start debug session after 3 attempts'
AttachGivesUp ==
    /\ gpc = "attach" /\ retryCount >= maxRetries
    /\ settled' = FailedAfterRetries
    /\ gpc' = "done"
    /\ UNCHANGED <<variant, elapsed, consecutiveSuccesses, probes, jvmReady, retryCount,
                   attempts>>

DebugNext ==
    \/ (WaitProbe /\ UNCHANGED <<discoveryVars, consoleVars, xmlVars, repeatVars, runVars,
                                 execVars, watchVars>>)
    \/ (WaitTimesOut /\ UNCHANGED <<discoveryVars, consoleVars, xmlVars, repeatVars, runVars,
                                    execVars, watchVars>>)
    \/ (EnsureLaunchConfiguration /\ UNCHANGED <<discoveryVars, consoleVars, xmlVars,
                                                 repeatVars, runVars, execVars, watchVars>>)
    \/ (AttachAttempt /\ UNCHANGED <<discoveryVars, consoleVars, xmlVars, repeatVars, runVars,
                                     execVars, watchVars>>)
    \/ (AttachGivesUp /\ UNCHANGED <<discoveryVars, consoleVars, xmlVars, repeatVars, runVars,
                                     execVars, watchVars>>)

InitDebug ==
    DebugStart /\ DiscoveryIdle /\ ConsoleIdle /\ XmlIdle /\ RepeatIdle /\ RunIdle
      /\ ExecIdle /\ WatchIdle

SpecDebug == InitDebug /\ [][DebugNext]_vars

\* the number of successful probes at the end of the probes made
RECURSIVE TrailingReady(_)
TrailingReady(ps) ==
    IF ps = <<>> \/ ps[Len(ps)] # "ready" THEN 0
    ELSE 1 + TrailingReady(SubSeq(ps, 1, Len(ps) - 1))

TwoInARow(ps) == \E k \in 1..(Len(ps) - 1) : ps[k] = "ready" /\ ps[k + 1] = "ready"

(***************************************************************************)
(* C36: startDebugSession makes no attach attempt unless the JVM port was  *)
(* found ready, makes at most 3 attempts, none after a successful one,     *)
(* raises 'Failed to start debug session after 3 attempts' only after 3    *)
(* failed attempts, and always ends in success or in an error.             *)
(***************************************************************************)
C36_AttachAttempts ==
    /\ attempts # <<>> => jvmReady = "true"
    /\ Len(attempts) <= maxRetries
    /\ \A k \in 1..(Len(attempts) - 1) : attempts[k] # "started"
    /\ settled = FailedAfterRetries
         => Len(attempts) = 3 /\ \A k \in 1..3 : attempts[k] # "started"
    /\ gpc \in {"done", "abandoned"} => settled # "pending"

(***************************************************************************)
(* C37: waitForJvmDebugPort returns true only when its two most recent     *)
(* probes both succeeded: every failed or errored probe resets the counter *)
(* of consecutive successes to 0, one success never suffices, and it       *)
(* returns false when the wait time runs out before two successes in a row.*)
(***************************************************************************)
C37_TwoConsecutiveSuccesses ==
    /\ consecutiveSuccesses = TrailingReady(probes)
    /\ jvmReady = "true" => TrailingReady(probes) = 2
    /\ jvmReady = "false" => elapsed >= MaxWaitTime /\ ~TwoInARow(probes)
    /\ gpc # "wait" => jvmReady # ""

C37_Witness ==
    /\ jvmReady = "true"
    /\ probes = <<"ready", "error", "ready", "ready">>

(***************************************************************************)
(* File watchers and discoverAllTests (testController.ts 45-58, 76-97,     *)
(* 113-124).  controller.items is a collection keyed by uri.toString();    *)
(* a file item is an object, told apart here by the number createTestItem  *)
(* made it with.  A watcher event is the change of the workspace together  *)
(* with its handler.  discoverAllTests awaits findFiles: the list it       *)
(* resolves with is taken when the call is made, the loop over the list    *)
(* runs when the promise resolves, and watcher events are handled between  *)
(* the two.  The children discoverTestsInFile gives the item are the       *)
(* subject of SpecDiscovery.                                               *)
(***************************************************************************)
Uris == {"A.groovy", "B.groovy"}

MaxCreated == 4

\* findFiles returns the URIs in some order; the order only names the objects
UriOrder == <<"A.groovy", "B.groovy">>

\* getOrCreateFile: the item controller.items holds for the URI, or a new one
getOrCreateFile(coll, count, uri) ==
    IF coll[uri] # 0
    THEN [items |-> coll, created |-> count]
    ELSE [items |-> [coll EXCEPT ![uri] = count + 1], created |-> count + 1]

\* for (const file of files) this.getOrCreateFile(file)
RECURSIVE ForEachFile(_, _, _, _)
ForEachFile(coll, count, files, k) ==
    IF k > Len(UriOrder) THEN [items |-> coll, created |-> count]
    ELSE IF UriOrder[k] \in files
         THEN LET r == getOrCreateFile(coll, count, UriOrder[k])
              IN  ForEachFile(r.items, r.created, files, k + 1)
         ELSE ForEachFile(coll, count, files, k + 1)

WatchStart ==
    /\ fsFiles \in SUBSET Uris
    /\ fileItems = [u \in Uris |-> 0]
    /\ created = 0
    /\ lastEvent = [u \in Uris |-> ""]
    /\ foundFiles = <<>>

\* watcher.onDidCreate(uri => this.discoverTestsInFile(this.getOrCreateFile(uri)))
FileCreated ==
    \E u \in Uris \ fsFiles :
       LET r == getOrCreateFile(fileItems, created, u)
       IN  /\ r.created <= MaxCreated
           /\ fsFiles' = fsFiles \cup {u}
           /\ fileItems' = r.items
           /\ created' = r.created
           /\ lastEvent' = [lastEvent EXCEPT ![u] = "created"]
           /\ UNCHANGED foundFiles

\* watcher.onDidChange(uri => this.discoverTestsInFile(this.getOrCreateFile(uri)))
FileChanged ==
    \E u \in fsFiles :
       LET r == getOrCreateFile(fileItems, created, u)
       IN  /\ r.created <= MaxCreated
           /\ fileItems' = r.items
           /\ created' = r.created
           /\ lastEvent' = [lastEvent EXCEPT ![u] = "changed"]
           /\ UNCHANGED <<fsFiles, foundFiles>>

\* watcher.onDidDelete(uri => this.controller.items.delete(uri.toString()))
FileDeleted ==
    \E u \in fsFiles :
       /\ fsFiles' = fsFiles \ {u}
       /\ fileItems' = [fileItems EXCEPT ![u] = 0]
       /\ lastEvent' = [lastEvent EXCEPT ![u] = "deleted"]
       /\ UNCHANGED <<created, foundFiles>>

\* discoverAllTests up to `await vscode.workspace.findFiles(pattern)`
DiscoverAllCall ==
    /\ foundFiles = <<>>
    /\ foundFiles' = <<fsFiles>>
    /\ UNCHANGED <<fsFiles, fileItems, created, lastEvent>>

\* discoverAllTests from the resolution of findFiles on
DiscoverAllContinue ==
    /\ foundFiles # <<>>
    /\ LET r == ForEachFile(fileItems, created, foundFiles[1], 1)
       IN  /\ r.created <= MaxCreated
           /\ fileItems' = r.items
           /\ created' = r.created
    /\ foundFiles' = <<>>
    /\ UNCHANGED <<fsFiles, lastEvent>>

WatchNext ==
    \/ (FileCreated /\ UNCHANGED <<discoveryVars, consoleVars, xmlVars, repeatVars, runVars,
                                   execVars, debugVars>>)
    \/ (FileChanged /\ UNCHANGED <<discoveryVars, consoleVars, xmlVars, repeatVars, runVars,
                                   execVars, debugVars>>)
    \/ (FileDeleted /\ UNCHANGED <<discoveryVars, consoleVars, xmlVars, repeatVars, runVars,
                                   execVars, debugVars>>)
    \/ (DiscoverAllCall /\ UNCHANGED <<discoveryVars, consoleVars, xmlVars, repeatVars,
                                       runVars, execVars, debugVars>>)
    \/ (DiscoverAllContinue /\ UNCHANGED <<discoveryVars, consoleVars, xmlVars, repeatVars,
                                           runVars, execVars, debugVars>>)

InitWatch ==
    WatchStart /\ DiscoveryIdle /\ ConsoleIdle /\ XmlIdle /\ RepeatIdle /\ RunIdle
      /\ ExecIdle /\ DebugIdle

SpecWatch == InitWatch /\ [][WatchNext]_vars

\* an item the controller holds stays the item of its URI until a deletion
ExistingItemKept ==
    \A u \in Uris :
       (fileItems[u] # 0 /\ fileItems'[u] # 0) => fileItems'[u] = fileItems[u]

NoItemAfterDeletion ==
    \A u \in Uris : lastEvent[u] = "deleted" => fileItems[u] = 0

(***************************************************************************)
(* C38: after any sequence of file created, changed and deleted events and *)
(* discovery calls, the controller holds at most one file item per URI     *)
(* (getOrCreateFile returns the existing item when there is one), and      *)
(* holds no item for a URI whose most recent event was a deletion.         *)
(***************************************************************************)
C38_OneItemPerUriNoneAfterDeletion ==
    [][ExistingItemKept]_vars /\ []NoItemAfterDeletion

====
